---- MODULE Spec2Model ----
(***************************************************************************)
(* SpooqW pipeline-configuration processor (src/src/lib/yaml-utils.ts).    *)
(*                                                                         *)
(* Texts are sequences of one-character strings, so that the regular       *)
(* expressions of the parser and of the validator are modelled character   *)
(* by character.  A Step is a record whose DOMAIN holds exactly the        *)
(* attributes that are present on the JavaScript object; `options` is the  *)
(* sequence of its <<key, value>> entries in insertion order.  An optional *)
(* string argument is <<>> (undefined) or <<s>>.                           *)
(***************************************************************************)
EXTENDS Integers, Sequences, FiniteSets, TLC

\* ---------------------------------------------------------------- bounds
MaxFields == 2      \* optional attributes present on a generated step
MaxSteps == 3       \* steps of a generated multi-step list
MaxRuns == 2        \* runs started on each server
MaxRunSteps == 2    \* steps of the pipeline a run executes
MaxConnects == 7    \* connect() calls of one LogsWebSocket
MaxSchedules == 2   \* schedules ever inserted
MaxRequests == 4    \* schedule requests ever issued

\* ------------------------------------------------------- character classes
NL == "\n"
SP == " "
\* \s of the regular expressions
Ws == {" ", "\t", "\n", "\r"}
Lower == {"a","b","c","d","e","f","g","h","i","j","k","l","m",
          "n","o","p","q","r","s","t","u","v","w","x","y","z"}
Upper == {"A","B","C","D","E","F","G","H","I","J","K","L","M",
          "N","O","P","Q","R","S","T","U","V","W","X","Y","Z"}
\* [a-zA-Z]
Letter == Lower \cup Upper
\* [a-zA-Z_]
KeyChar == Letter \cup {"_"}

Min(S) == CHOOSE x \in S : \A y \in S : x <= y
Max(S) == CHOOSE x \in S : \A y \in S : x >= y

\* ------------------------------------------------------ string primitives
RECURSIVE Join(_, _)
\* Array.prototype.join
Join(lines, sep) ==
    IF Len(lines) = 0 THEN <<>>
    ELSE IF Len(lines) = 1 THEN lines[1]
    ELSE lines[1] \o sep \o Join(Tail(lines), sep)

RECURSIVE SkipWs(_, _)
\* greedy \s* from position p: the first position that holds no whitespace
SkipWs(t, p) == IF p <= Len(t) /\ t[p] \in Ws THEN SkipWs(t, p + 1) ELSE p

RECURSIVE SkipWsBack(_, _)
\* the last position <= p that holds no whitespace (0 when none)
SkipWsBack(t, p) == IF p >= 1 /\ t[p] \in Ws THEN SkipWsBack(t, p - 1) ELSE p

RECURSIVE SkipNonWs(_, _)
\* greedy [^\s\n]+ from position p
SkipNonWs(t, p) == IF p <= Len(t) /\ t[p] \notin Ws THEN SkipNonWs(t, p + 1) ELSE p

RECURSIVE SkipLine(_, _)
\* greedy [^\n]* from position p: the position of the next newline, or Len+1
SkipLine(t, p) == IF p <= Len(t) /\ t[p] # NL THEN SkipLine(t, p + 1) ELSE p

RECURSIVE SkipKey(_, _)
\* greedy [a-zA-Z_]* from position p
SkipKey(t, p) == IF p <= Len(t) /\ t[p] \in KeyChar THEN SkipKey(t, p + 1) ELSE p

\* String.prototype.trim
Trim(t) == SubSeq(t, SkipWs(t, 1), SkipWsBack(t, Len(t)))

\* the literal lit stands at position p of t
StartsWith(t, p, lit) ==
    /\ p >= 1
    /\ p + Len(lit) - 1 <= Len(t)
    /\ \A i \in 1..Len(lit) : t[p + i - 1] = lit[i]

\* String.prototype.includes
Includes(t, lit) == \E p \in 1..Len(t) : StartsWith(t, p, lit)

RECURSIVE SplitFrom(_, _)
SplitFrom(t, p) ==
    LET e == SkipLine(t, p)
    IN  IF e > Len(t) THEN <<SubSeq(t, p, Len(t))>>
        ELSE <<SubSeq(t, p, e - 1)>> \o SplitFrom(t, e + 1)

\* text.split('\n')
SplitLines(t) == SplitFrom(t, 1)

\* ${...} of a boolean inside a template literal
BoolText(b) == IF b THEN <<"t","r","u","e">> ELSE <<"f","a","l","s","e">>

\* ------------------------------------------------------------- literals
K_id == <<"i","d",":">>
K_kind == <<"k","i","n","d",":">>
K_desc == <<"d","e","s","c",":">>
K_shortDesc == <<"s","h","o","r","t","D","e","s","c",":">>
K_source == <<"s","o","u","r","c","e",":">>
K_format == <<"f","o","r","m","a","t",":">>
K_path == <<"p","a","t","h",":">>
K_sql == <<"s","q","l",":">>
K_cache == <<"c","a","c","h","e",":">>
K_show == <<"s","h","o","w",":">>
K_schema == <<"s","c","h","e","m","a",":">>
K_options == <<"o","p","t","i","o","n","s",":">>
K_dependsOn == <<"d","e","p","e","n","d","s","O","n",":">>
K_steps == <<"s","t","e","p","s",":">>
Indent4 == <<" "," "," "," ">>
Indent6 == <<" "," "," "," "," "," ">>
\* '  - id: '
EntryPrefix == <<" "," ","-"," ">> \o K_id \o <<" ">>
\* 'my-pipeline', the placeholder of an omitted pipelineId
DefaultPipelineId == <<"m","y","-","p","i","p","e","l","i","n","e">>

\* ------------------------------------------------------------ Step access
Has(step, f) == f \in DOMAIN step
\* if (step.f) for a string attribute
Truthy(step, f) == Has(step, f) /\ Len(step[f]) > 0
NoFields == [x \in {} |-> <<>>]
\* the one-attribute object {f: m[1]} when the match m succeeded, {} otherwise
Field(f, m) == IF m = <<>> THEN NoFields ELSE [x \in {f} |-> m[1]]

\* ------------------------------------------------------------ stepsToYaml
\* `    key: value`
AttrLine(key, value) == Indent4 \o key \o <<" ">> \o value

RECURSIVE OptionLines(_)
OptionLines(options) ==
    IF Len(options) = 0 THEN <<>>
    ELSE <<Indent6 \o options[1][1] \o <<":", " ">> \o options[1][2]>>
         \o OptionLines(Tail(options))

RECURSIVE DependsOnLines(_)
DependsOnLines(deps) ==
    IF Len(deps) = 0 THEN <<>>
    ELSE <<Indent6 \o <<"-", " ">> \o deps[1]>> \o DependsOnLines(Tail(deps))

RECURSIVE SqlBlockLines(_)
SqlBlockLines(sqlLines) ==
    IF Len(sqlLines) = 0 THEN <<>>
    ELSE <<Indent6 \o sqlLines[1]>> \o SqlBlockLines(Tail(sqlLines))

\* schema written before cache and show
StepLines_SchemaFirst(step) ==
    <<EntryPrefix \o step.id, AttrLine(K_kind, step.kind)>>
    \o (IF Truthy(step, "shortDesc") THEN <<AttrLine(K_shortDesc, step.shortDesc)>> ELSE <<>>)
    \o (IF Truthy(step, "source") THEN <<AttrLine(K_source, step.source)>> ELSE <<>>)
    \o (IF Truthy(step, "format") THEN <<AttrLine(K_format, step.format)>> ELSE <<>>)
    \o (IF Truthy(step, "path") THEN <<AttrLine(K_path, step.path)>> ELSE <<>>)
    \o (IF Truthy(step, "sql")
        THEN IF \E i \in 1..Len(step.sql) : step.sql[i] = NL
             THEN <<AttrLine(K_sql, <<"|">>)>> \o SqlBlockLines(SplitLines(step.sql))
             ELSE <<AttrLine(K_sql, step.sql)>>
        ELSE <<>>)
    \o (IF Truthy(step, "schema") THEN <<AttrLine(K_schema, step.schema)>> ELSE <<>>)
    \o (IF Has(step, "cache") THEN <<AttrLine(K_cache, BoolText(step.cache))>> ELSE <<>>)
    \o (IF Has(step, "show") THEN <<AttrLine(K_show, BoolText(step.show))>> ELSE <<>>)
    \o (IF Has(step, "options") /\ Len(step.options) > 0
        THEN <<Indent4 \o K_options>> \o OptionLines(step.options)
        ELSE <<>>)
    \o (IF Has(step, "dependsOn") /\ Len(step.dependsOn) > 0
        THEN <<Indent4 \o K_dependsOn>> \o DependsOnLines(step.dependsOn)
        ELSE <<>>)
    \o << <<>> >>
\* the lines pushed for one step by the loop body of stepsToYaml
StepLines(step) ==
    <<EntryPrefix \o step.id, AttrLine(K_kind, step.kind)>>
    \o (IF Truthy(step, "shortDesc") THEN <<AttrLine(K_shortDesc, step.shortDesc)>> ELSE <<>>)
    \o (IF Truthy(step, "source") THEN <<AttrLine(K_source, step.source)>> ELSE <<>>)
    \o (IF Truthy(step, "format") THEN <<AttrLine(K_format, step.format)>> ELSE <<>>)
    \o (IF Truthy(step, "path") THEN <<AttrLine(K_path, step.path)>> ELSE <<>>)
    \o (IF Truthy(step, "sql")
        THEN IF \E i \in 1..Len(step.sql) : step.sql[i] = NL
             THEN <<AttrLine(K_sql, <<"|">>)>> \o SqlBlockLines(SplitLines(step.sql))
             ELSE <<AttrLine(K_sql, step.sql)>>
        ELSE <<>>)
    \o (IF Has(step, "cache") THEN <<AttrLine(K_cache, BoolText(step.cache))>> ELSE <<>>)
    \o (IF Has(step, "show") THEN <<AttrLine(K_show, BoolText(step.show))>> ELSE <<>>)
    \o (IF Truthy(step, "schema") THEN <<AttrLine(K_schema, step.schema)>> ELSE <<>>)
    \o (IF Has(step, "options") /\ Len(step.options) > 0
        THEN <<Indent4 \o K_options>> \o OptionLines(step.options)
        ELSE <<>>)
    \o (IF Has(step, "dependsOn") /\ Len(step.dependsOn) > 0
        THEN <<Indent4 \o K_dependsOn>> \o DependsOnLines(step.dependsOn)
        ELSE <<>>)
    \o << <<>> >>

RECURSIVE AllStepLines(_)
AllStepLines(steps) ==
    IF Len(steps) = 0 THEN <<>>
    ELSE StepLines(steps[1]) \o AllStepLines(Tail(steps))

\* the joined lines returned without trim()
stepsToYaml_NoTrim(steps, pipelineId, pipelineDesc) ==
    LET idText == IF pipelineId # <<>> /\ Len(pipelineId[1]) > 0
                  THEN pipelineId[1] ELSE DefaultPipelineId
        header == <<K_id \o <<" ">> \o idText>>
                  \o (IF pipelineDesc # <<>> /\ Len(pipelineDesc[1]) > 0
                      THEN <<K_desc \o <<" ">> \o pipelineDesc[1]>> ELSE <<>>)
                  \o << <<>>, K_steps >>
    IN  Join(header \o AllStepLines(steps), <<NL>>)
\* pipelineId and pipelineDesc are <<>> when omitted, <<text>> when given
stepsToYaml(steps, pipelineId, pipelineDesc) ==
    LET idText == IF pipelineId # <<>> /\ Len(pipelineId[1]) > 0
                  THEN pipelineId[1] ELSE DefaultPipelineId
        header == <<K_id \o <<" ">> \o idText>>
                  \o (IF pipelineDesc # <<>> /\ Len(pipelineDesc[1]) > 0
                      THEN <<K_desc \o <<" ">> \o pipelineDesc[1]>> ELSE <<>>)
                  \o << <<>>, K_steps >>
    IN  Trim(Join(header \o AllStepLines(steps), <<NL>>))

\* ---------------------------------------------------- regular expressions
\* `\s*X+` with X = [^\n] (or `.`), tried from position a: the position where
\* the X+ capture starts, 0 when the pattern fails.  The greedy \s* first
\* takes the whole whitespace run; when the run reaches the end of the text
\* it gives characters back until X+ can take one.
ValueStart(t, a) ==
    LET w == SkipWs(t, a)
        back == {k \in a..Len(t) : t[k] # NL}
    IN  IF w <= Len(t) THEN w
        ELSE IF back = {} THEN 0 ELSE Max(back)

\* /key\s*([^\s\n]+)/ : <<>> or <<capture>> of the leftmost match
TokenMatch(t, key) ==
    LET starts == {p \in 1..Len(t) :
                     StartsWith(t, p, key) /\ SkipWs(t, p + Len(key)) <= Len(t)}
    IN  IF starts = {} THEN <<>>
        ELSE LET a == SkipWs(t, Min(starts) + Len(key))
             IN  <<SubSeq(t, a, SkipNonWs(t, a) - 1)>>

\* /key\s*([^\n]+)/ : <<>> or <<capture>> of the leftmost match
LineMatch(t, key) ==
    LET starts == {p \in 1..Len(t) :
                     StartsWith(t, p, key) /\ ValueStart(t, p + Len(key)) # 0}
    IN  IF starts = {} THEN <<>>
        ELSE LET a == ValueStart(t, Min(starts) + Len(key))
             IN  <<SubSeq(t, a, SkipLine(t, a) - 1)>>

\* /key\s*(true|false)/ : <<>> or <<capture === 'true'>>
BoolMatch(t, key) ==
    LET IsTrue(p) == StartsWith(t, SkipWs(t, p + Len(key)), BoolText(TRUE))
        IsFalse(p) == StartsWith(t, SkipWs(t, p + Len(key)), BoolText(FALSE))
        starts == {p \in 1..Len(t) : StartsWith(t, p, key) /\ (IsTrue(p) \/ IsFalse(p))}
    IN  IF starts = {} THEN <<>> ELSE <<IsTrue(Min(starts))>>

\* `\s*\n` tried from position a: the position after the newline it ends on
\* (the last newline of the whitespace run), 0 when the run holds no newline
AfterLastNewline(t, a) ==
    LET nls == {k \in a..(SkipWs(t, a) - 1) : t[k] = NL}
    IN  IF nls = {} THEN 0 ELSE Max(nls) + 1

\* /steps:\s*\n([\s\S]*?)(?=\n[a-zA-Z]|$)/ : <<>> or <<capture>>
StepsSection(yaml) ==
    LET starts == {p \in 1..Len(yaml) :
                     StartsWith(yaml, p, K_steps) /\ AfterLastNewline(yaml, p + Len(K_steps)) # 0}
    IN  IF starts = {} THEN <<>>
        ELSE LET c == AfterLastNewline(yaml, Min(starts) + Len(K_steps))
                 stops == {e \in c..Len(yaml) :
                             yaml[e] = NL /\ e + 1 <= Len(yaml) /\ yaml[e + 1] \in Letter}
                 e == IF stops = {} THEN Len(yaml) + 1 ELSE Min(stops)
             IN  <<SubSeq(yaml, c, e - 1)>>

\* a separator before every sequence item, whatever its first attribute
SeparatorEnd_AnyItem(t, p) ==
    IF p > Len(t) \/ t[p] # NL THEN 0
    ELSE LET q == SkipWs(t, p + 1)
         IN  IF q > Len(t) \/ t[q] # "-" THEN 0
             ELSE LET r == SkipWs(t, q + 1)
                  IN  IF r > q + 1 THEN r ELSE 0
\* /\n\s*-\s+(?=id:)/ matched at position p of t: the position after the
\* match, 0 when it does not match there
SeparatorEnd(t, p) ==
    IF p > Len(t) \/ t[p] # NL THEN 0
    ELSE LET q == SkipWs(t, p + 1)
         IN  IF q > Len(t) \/ t[q] # "-" THEN 0
             ELSE LET r == SkipWs(t, q + 1)
                  IN  IF r > q + 1 /\ StartsWith(t, r, K_id) THEN r ELSE 0

RECURSIVE SplitBlocks(_, _, _)
\* stepsContent.split(/\n\s*-\s+(?=id:)/) from position `from`; seps holds
\* the positions where the separator matches
SplitBlocks(t, seps, from) ==
    LET next == {p \in seps : p >= from}
    IN  IF next = {} THEN <<SubSeq(t, from, Len(t))>>
        ELSE LET p == Min(next)
             IN  <<SubSeq(t, from, p - 1)>> \o SplitBlocks(t, seps, SeparatorEnd(t, p))

\* .filter(Boolean) on a list of strings
FilterNonEmpty(blocks) == SelectSeq(blocks, LAMBDA b : Len(b) > 0)

\* /sql:\s*\|\s*\n([\s\S]*?)(?=\n\s*[a-zA-Z]|$)/ : <<>> or <<capture>>
SqlPipeMatch(t) ==
    LET Bar(p) == SkipWs(t, p + Len(K_sql))
        Ok(p) == /\ StartsWith(t, p, K_sql)
                 /\ Bar(p) <= Len(t)
                 /\ t[Bar(p)] = "|"
                 /\ AfterLastNewline(t, Bar(p) + 1) # 0
        starts == {p \in 1..Len(t) : Ok(p)}
    IN  IF starts = {} THEN <<>>
        ELSE LET c == AfterLastNewline(t, Bar(Min(starts)) + 1)
                 stops == {e \in c..Len(t) :
                             /\ t[e] = NL
                             /\ SkipWs(t, e + 1) <= Len(t)
                             /\ t[SkipWs(t, e + 1)] \in Letter}
                 e == IF stops = {} THEN Len(t) + 1 ELSE Min(stops)
             IN  <<SubSeq(t, c, e - 1)>>

\* line.replace(/^\s{6}/, '')
StripIndent(line) ==
    IF Len(line) >= 6 /\ \A i \in 1..6 : line[i] \in Ws
    THEN SubSeq(line, 7, Len(line)) ELSE line

RECURSIVE MapStripIndent(_)
MapStripIndent(lines) ==
    IF Len(lines) = 0 THEN <<>>
    ELSE <<StripIndent(lines[1])>> \o MapStripIndent(Tail(lines))

\* one iteration of (?:\s+[a-zA-Z_]+:\s*[^\n]+\n?) from position p: the
\* position after it, 0 when it fails
OptionEntryEnd(t, p) ==
    LET w == SkipWs(t, p)
        k == SkipKey(t, w)
    IN  IF w = p \/ k = w \/ k > Len(t) \/ t[k] # ":" THEN 0
        ELSE LET v == ValueStart(t, k + 1)
                 e == SkipLine(t, v)
             IN  IF v = 0 THEN 0 ELSE IF e <= Len(t) THEN e + 1 ELSE e

\* one iteration of (?:\s+-\s*[^\n]+\n?) from position p
DependsOnEntryEnd(t, p) ==
    LET w == SkipWs(t, p)
    IN  IF w = p \/ w > Len(t) \/ t[w] # "-" THEN 0
        ELSE LET v == ValueStart(t, w + 1)
                 e == SkipLine(t, v)
             IN  IF v = 0 THEN 0 ELSE IF e <= Len(t) THEN e + 1 ELSE e

RECURSIVE OptionEntriesEnd(_, _)
\* the greedy (...)+ loop of the options pattern, after a first iteration
OptionEntriesEnd(t, p) ==
    IF OptionEntryEnd(t, p) = 0 THEN p ELSE OptionEntriesEnd(t, OptionEntryEnd(t, p))

RECURSIVE DependsOnEntriesEnd(_, _)
DependsOnEntriesEnd(t, p) ==
    IF DependsOnEntryEnd(t, p) = 0 THEN p ELSE DependsOnEntriesEnd(t, DependsOnEntryEnd(t, p))

\* `key:\s*\n(\s+...` tried after the key at position a: the position where
\* the first entry's \s+ starts, 0 when no newline of the whitespace run
\* leaves at least one whitespace character for \s+
NestedBlockStart(t, a) ==
    LET nls == {k \in a..(SkipWs(t, a) - 2) : t[k] = NL}
    IN  IF nls = {} THEN 0 ELSE Max(nls) + 1

\* /options:\s*\n((?:\s+[a-zA-Z_]+:\s*[^\n]+\n?)+)/ : <<>> or <<capture.trim()>>
OptionsMatch(t) ==
    LET First(p) == NestedBlockStart(t, p + Len(K_options))
        starts == {p \in 1..Len(t) :
                     /\ StartsWith(t, p, K_options)
                     /\ First(p) # 0
                     /\ OptionEntryEnd(t, First(p)) # 0}
    IN  IF starts = {} THEN <<>>
        ELSE LET c == First(Min(starts))
             IN  <<Trim(SubSeq(t, c, OptionEntriesEnd(t, c) - 1))>>

\* /dependsOn:\s*\n((?:\s+-\s*[^\n]+\n?)+)/ : <<>> or <<capture.trim()>>
DependsOnMatch(t) ==
    LET First(p) == NestedBlockStart(t, p + Len(K_dependsOn))
        starts == {p \in 1..Len(t) :
                     /\ StartsWith(t, p, K_dependsOn)
                     /\ First(p) # 0
                     /\ DependsOnEntryEnd(t, First(p)) # 0}
    IN  IF starts = {} THEN <<>>
        ELSE LET c == First(Min(starts))
             IN  <<Trim(SubSeq(t, c, DependsOnEntriesEnd(t, c) - 1))>>

\* line.match(/\s*([a-zA-Z_]+):\s*(.+)/) : <<>> or <<key, value.trim()>>
OptionLineMatch(line) ==
    LET KeyEnd(s) == SkipKey(line, SkipWs(line, s))
        Ok(s) == /\ KeyEnd(s) > SkipWs(line, s)
                 /\ KeyEnd(s) <= Len(line)
                 /\ line[KeyEnd(s)] = ":"
                 /\ ValueStart(line, KeyEnd(s) + 1) # 0
        starts == {s \in 1..Len(line) : Ok(s)}
    IN  IF starts = {} THEN <<>>
        ELSE LET s == Min(starts)
             IN  <<SubSeq(line, SkipWs(line, s), KeyEnd(s) - 1),
                   Trim(SubSeq(line, ValueStart(line, KeyEnd(s) + 1), Len(line)))>>

\* line.match(/\s*-\s*(.+)/) : <<>> or <<value.trim()>>
DependsOnLineMatch(line) ==
    LET Dash(s) == SkipWs(line, s)
        Ok(s) == /\ Dash(s) <= Len(line)
                 /\ line[Dash(s)] = "-"
                 /\ ValueStart(line, Dash(s) + 1) # 0
        starts == {s \in 1..Len(line) : Ok(s)}
    IN  IF starts = {} THEN <<>>
        ELSE <<Trim(SubSeq(line, ValueStart(line, Dash(Min(starts)) + 1), Len(line)))>>

\* step.options[key] = value on the insertion-ordered entry list
SetOption(options, key, value) ==
    IF \E i \in 1..Len(options) : options[i][1] = key
    THEN [i \in 1..Len(options) |->
            IF options[i][1] = key THEN <<key, value>> ELSE options[i]]
    ELSE Append(options, <<key, value>>)

RECURSIVE ParseOptionLines(_, _)
ParseOptionLines(lines, options) ==
    IF Len(lines) = 0 THEN options
    ELSE LET m == OptionLineMatch(lines[1])
         IN  ParseOptionLines(Tail(lines),
                 IF m = <<>> THEN options ELSE SetOption(options, m[1], m[2]))

RECURSIVE ParseDependsOnLines(_)
ParseDependsOnLines(lines) ==
    IF Len(lines) = 0 THEN <<>>
    ELSE DependsOnLineMatch(lines[1]) \o ParseDependsOnLines(Tail(lines))

\* -------------------------------------------------------- parseYamlSteps
TrimMatch(m) == IF m = <<>> THEN <<>> ELSE <<Trim(m[1])>>

\* the sql attribute: block scalar first, inline otherwise
SqlMatch(block) ==
    LET pipe == SqlPipeMatch(block)
    IN  IF pipe # <<>>
        THEN <<Trim(Join(MapStripIndent(SplitLines(pipe[1])), <<NL>>))>>
        ELSE TrimMatch(LineMatch(block, K_sql))

\* <<>> for null, <<step>> otherwise
parseStepBlock(block) ==
    LET idMatch == TokenMatch(block, K_id)
        kindMatch == TokenMatch(block, K_kind)
        optionsMatch == OptionsMatch(block)
        dependsOnMatch == DependsOnMatch(block)
    IN  IF idMatch = <<>> \/ kindMatch = <<>> THEN <<>>
        ELSE << [id |-> idMatch[1], kind |-> kindMatch[1]]
                @@ Field("shortDesc", TrimMatch(LineMatch(block, K_shortDesc)))
                @@ Field("desc", TrimMatch(LineMatch(block, K_desc)))
                @@ Field("format", TokenMatch(block, K_format))
                @@ Field("source", TokenMatch(block, K_source))
                @@ Field("path", TrimMatch(LineMatch(block, K_path)))
                @@ Field("schema", TrimMatch(LineMatch(block, K_schema)))
                @@ Field("cache", BoolMatch(block, K_cache))
                @@ Field("show", BoolMatch(block, K_show))
                @@ Field("sql", SqlMatch(block))
                @@ (IF optionsMatch = <<>> THEN NoFields
                    ELSE [x \in {"options"} |->
                            ParseOptionLines(SplitLines(optionsMatch[1]), <<>>)])
                @@ (IF dependsOnMatch = <<>> THEN NoFields
                    ELSE [x \in {"dependsOn"} |->
                            ParseDependsOnLines(SplitLines(dependsOnMatch[1]))]) >>

RECURSIVE ParseBlocks(_)
ParseBlocks(blocks) ==
    IF Len(blocks) = 0 THEN <<>>
    ELSE parseStepBlock(blocks[1]) \o ParseBlocks(Tail(blocks))

parseYamlSteps(yaml) ==
    LET stepsMatch == StepsSection(yaml)
    IN  IF stepsMatch = <<>> THEN <<>>
        ELSE LET stepsContent == stepsMatch[1]
                 seps == {p \in 1..Len(stepsContent) : SeparatorEnd(stepsContent, p) # 0}
             IN  ParseBlocks(FilterNonEmpty(SplitBlocks(stepsContent, seps, 1)))

\* ----------------------------------------------- extractPipelineMetadata
\* ^ under the m flag: the start of the text or the position after a line
\* terminator
LineStart(t, p) == p = 1 \/ t[p - 1] \in {"\n", "\r"}

\* TopLevelMatch without the ^ anchor: the first `key` anywhere in the text
TopLevelMatch_Unanchored(yaml, key) ==
    LET starts == {p \in 1..Len(yaml) :
                     StartsWith(yaml, p, key) /\ ValueStart(yaml, p + Len(key)) # 0}
    IN  IF starts = {} THEN <<>>
        ELSE LET a == ValueStart(yaml, Min(starts) + Len(key))
             IN  <<Trim(SubSeq(yaml, a, SkipLine(yaml, a) - 1))>>

\* /^key\s*([^\n]+)/m followed by ?.[1]?.trim() : <<>> or <<value>>
TopLevelMatch(yaml, key) ==
    LET starts == {p \in 1..Len(yaml) :
                     /\ LineStart(yaml, p)
                     /\ StartsWith(yaml, p, key)
                     /\ ValueStart(yaml, p + Len(key)) # 0}
    IN  IF starts = {} THEN <<>>
        ELSE LET a == ValueStart(yaml, Min(starts) + Len(key))
             IN  <<Trim(SubSeq(yaml, a, SkipLine(yaml, a) - 1))>>

extractPipelineMetadata(yaml) ==
    [id |-> TopLevelMatch(yaml, K_id), desc |-> TopLevelMatch(yaml, K_desc)]

\* ---------------------------------------------------- mergeStepsIntoYaml
mergeStepsIntoYaml(existingYaml, steps) ==
    LET metadata == extractPipelineMetadata(existingYaml)
    IN  stepsToYaml(steps, metadata.id, metadata.desc)

\* ---------------------------------------------------------- validateYaml
Quote == <<"'">>
ErrMissingId == <<"P","i","p","e","l","i","n","e"," ","m","u","s","t"," ","h","a","v","e"," ","a","n"," ","'","i","d","'"," ","f","i","e","l","d">>
ErrMissingSteps == <<"P","i","p","e","l","i","n","e"," ","m","u","s","t"," ","h","a","v","e"," ","a"," ","'","s","t","e","p","s","'"," ","s","e","c","t","i","o","n">>
\* the message of the missing section used for the empty step list too
ErrNoSteps_SameAsSection == ErrMissingSteps
ErrNoSteps == <<"P","i","p","e","l","i","n","e"," ","m","u","s","t"," ","h","a","v","e"," ","a","t"," ","l","e","a","s","t"," ","o","n","e"," ","s","t","e","p">>
ErrDuplicate(id) == <<"D","u","p","l","i","c","a","t","e"," ","s","t","e","p"," ","I","D",":"," ","'">> \o id \o Quote
ErrInvalidKind(kind, id) ==
    <<"I","n","v","a","l","i","d"," ","s","t","e","p"," ","k","i","n","d"," ","'">> \o kind \o <<"'"," ","i","n"," ","s","t","e","p"," ","'">> \o id \o Quote
ErrNoFormat(id, kind) ==
    <<"S","t","e","p"," ","'">> \o id \o <<"'"," ","o","f"," ","k","i","n","d"," ","'">> \o kind \o <<"'"," ","s","h","o","u","l","d"," ","s","p","e","c","i","f","y"," ","a"," ","f","o","r","m","a","t">>
ErrUnknownSource(id, source) ==
    <<"S","t","e","p"," ","'">> \o id \o <<"'"," ","r","e","f","e","r","e","n","c","e","s"," ","u","n","k","n","o","w","n"," ","s","o","u","r","c","e"," ","'">> \o source \o Quote

KindInput == <<"i","n","p","u","t">>
KindOutput == <<"o","u","t","p","u","t">>

validKinds == <<
    <<"i","n","p","u","t">>,
    <<"i","n","p","u","t","-","s","t","r","e","a","m">>,
    <<"s","q","l">>,
    <<"v","a","r","i","a","b","l","e">>,
    <<"s","c","r","i","p","t">>,
    <<"c","u","s","t","o","m">>,
    <<"c","u","s","t","o","m","I","n","p","u","t">>,
    <<"a","v","r","o","-","s","e","r","d","e">>,
    <<"u","d","f">>,
    <<"o","u","t","p","u","t">>,
    <<"o","u","t","p","u","t","-","s","t","r","e","a","m">>,
    <<"p","a","r","s","e","-","j","s","o","n">> >>

\* IsValidKind with a loop that stops one entry early
IsValidKind_OffByOne(kind) == \E i \in 1..(Len(validKinds) - 1) : validKinds[i] = kind

\* validKinds.includes(kind)
IsValidKind(kind) == \E i \in 1..Len(validKinds) : validKinds[i] = kind

\* /^id:\s*\S+/m
HasPipelineId(yaml) ==
    \E p \in 1..Len(yaml) :
        /\ LineStart(yaml, p)
        /\ StartsWith(yaml, p, K_id)
        /\ SkipWs(yaml, p + Len(K_id)) <= Len(yaml)

\* steps.find(s => s.id === id)?.id : <<>> for undefined
FindId(steps, id) ==
    LET hits == {i \in 1..Len(steps) : steps[i].id = id}
    IN  IF hits = {} THEN <<>> ELSE <<steps[Min(hits)].id>>

\* DuplicateErrors with the test made after stepIds.add(step.id)
DuplicateErrors_AfterAdd(step, stepIds) ==
    IF step.id \in (stepIds \cup {step.id}) THEN <<ErrDuplicate(step.id)>> ELSE <<>>

\* if (stepIds.has(step.id)), evaluated before stepIds.add(step.id)
DuplicateErrors(step, stepIds) ==
    IF step.id \in stepIds THEN <<ErrDuplicate(step.id)>> ELSE <<>>

\* if (!validKinds.includes(step.kind))
KindErrors(step) ==
    IF ~IsValidKind(step.kind) THEN <<ErrInvalidKind(step.kind, step.id)>> ELSE <<>>

\* FormatErrors with kind.startsWith('input') || kind.startsWith('output')
FormatErrors_Streams(step) ==
    IF (StartsWith(step.kind, 1, KindInput) \/ StartsWith(step.kind, 1, KindOutput))
       /\ ~Truthy(step, "format")
    THEN <<ErrNoFormat(step.id, step.kind)>> ELSE <<>>

\* if ((step.kind === 'input' || step.kind === 'output') && !step.format)
FormatErrors(step) ==
    IF (step.kind = KindInput \/ step.kind = KindOutput) /\ ~Truthy(step, "format")
    THEN <<ErrNoFormat(step.id, step.kind)>> ELSE <<>>

\* SourceErrors that looks only at the steps seen so far
SourceErrors_EarlierOnly(steps, step, stepIds) ==
    IF Truthy(step, "source") /\ step.source \notin stepIds
    THEN <<ErrUnknownSource(step.id, step.source)>> ELSE <<>>

\* the source check; stepIds already holds step.id
SourceErrors(steps, step, stepIds) ==
    IF /\ Truthy(step, "source")
       /\ step.source \notin stepIds
       /\ <<step.source>> # FindId(steps, step.source)
       /\ ~\E i \in 1..Len(steps) : steps[i].id = step.source
    THEN <<ErrUnknownSource(step.id, step.source)>> ELSE <<>>

\* the errors pushed by one iteration of the loop over the parsed steps;
\* stepIds holds the ids of the steps before this one
\* only the first failing check of a step reports
StepErrors_FirstOnly(steps, step, stepIds) ==
    LET all == DuplicateErrors(step, stepIds)
               \o KindErrors(step)
               \o FormatErrors(step)
               \o SourceErrors(steps, step, stepIds \cup {step.id})
    IN  IF Len(all) = 0 THEN <<>> ELSE <<all[1]>>
StepErrors(steps, step, stepIds) ==
    DuplicateErrors(step, stepIds)
    \o KindErrors(step)
    \o FormatErrors(step)
    \o SourceErrors(steps, step, stepIds \cup {step.id})

RECURSIVE ValidateSteps(_, _, _)
\* the loop `for (const step of steps)` from index i on
ValidateSteps(steps, i, stepIds) ==
    IF i > Len(steps) THEN <<>>
    ELSE StepErrors(steps, steps[i], stepIds)
         \o ValidateSteps(steps, i + 1, stepIds \cup {steps[i].id})

\* the errors of the steps listed before those of the document
validateYaml_HeaderLast(yaml) ==
    LET steps == parseYamlSteps(yaml)
        errors == ValidateSteps(steps, 1, {})
                  \o (IF ~HasPipelineId(yaml) THEN <<ErrMissingId>> ELSE <<>>)
                  \o (IF ~Includes(yaml, K_steps) THEN <<ErrMissingSteps>> ELSE <<>>)
                  \o (IF Len(steps) = 0 THEN <<ErrNoSteps>> ELSE <<>>)
    IN  [valid |-> Len(errors) = 0, errors |-> errors]
\* valid computed before the loop over the steps
validateYaml_ValidBeforeLoop(yaml) ==
    LET steps == parseYamlSteps(yaml)
        head == (IF ~HasPipelineId(yaml) THEN <<ErrMissingId>> ELSE <<>>)
                \o (IF ~Includes(yaml, K_steps) THEN <<ErrMissingSteps>> ELSE <<>>)
                \o (IF Len(steps) = 0 THEN <<ErrNoSteps>> ELSE <<>>)
    IN  [valid |-> Len(head) = 0, errors |-> head \o ValidateSteps(steps, 1, {})]
validateYaml(yaml) ==
    LET steps == parseYamlSteps(yaml)
        errors == (IF ~HasPipelineId(yaml) THEN <<ErrMissingId>> ELSE <<>>)
                  \o (IF ~Includes(yaml, K_steps) THEN <<ErrMissingSteps>> ELSE <<>>)
                  \o (IF Len(steps) = 0 THEN <<ErrNoSteps>> ELSE <<>>)
                  \o ValidateSteps(steps, 1, {})
    IN  [valid |-> Len(errors) = 0, errors |-> errors]

\* ------------------------------------------------------------ the inputs
\* Values of the step attributes used to build step lists.
IdA == <<"a">>
IdB == <<"b">>
IdGhost == <<"g","h","o","s","t">>
KindSql == <<"s","q","l">>
KindBogus == <<"b","o","g","u","s">>
KindCapital == <<"I","n","p","u","t">>
SqlInline == <<"S","E","L","E","C","T"," ","1">>
SqlThreeLines == <<"S","E","L","E","C","T"," ","*","\n","F","R","O","M"," ","t","\n","W","H","E","R","E"," ","x"," ","="," ","1">>
SqlIndented == <<"S","E","L","E","C","T"," ","*","\n"," "," ",","," ","1">>

\* one-attribute objects: every value an optional attribute takes here
AttributeValues ==
    { [x \in {"shortDesc"} |-> <<"x"," ","y">>],
      [x \in {"desc"} |-> <<"d">>],
      [x \in {"source"} |-> IdA],
      [x \in {"source"} |-> IdGhost],
      [x \in {"format"} |-> <<"c","s","v">>],
      [x \in {"path"} |-> <<"/","d","/","f",".","c","s","v">>],
      [x \in {"sql"} |-> SqlInline],
      [x \in {"sql"} |-> SqlThreeLines],
      [x \in {"sql"} |-> SqlIndented],
      [x \in {"schema"} |-> <<"s"," ","t">>],
      [x \in {"cache"} |-> TRUE],
      [x \in {"cache"} |-> FALSE],
      [x \in {"show"} |-> TRUE],
      [x \in {"show"} |-> FALSE],
      [x \in {"options"} |-> << <<<<"h","e","a","d","e","r">>, <<"t","r","u","e">>>>, <<<<"d","e","l","i","m","i","t","e","r">>, <<";">> >> >>],
      [x \in {"dependsOn"} |-> <<IdA>>],
      [x \in {"dependsOn"} |-> <<IdGhost, IdB>>],
      [x \in {"options"} |-> << <<<<"m","y","-","k","e","y">>, <<"v">> >> >>],
      [x \in {"position"} |-> [x |-> 1, y |-> 2]],
      [x \in {"options"} |-> << <<<<"p","a","t","h">>, <<"/","x">>>>, <<<<"c","a","c","h","e">>, <<"t","r","u","e">>>> >>],
      [x \in {"options"} |-> << <<<<"s","o","u","r","c","e">>, IdGhost>> >>] }

RECURSIVE MergeAll(_)
\* the object holding the attributes of all the one-attribute objects of S
MergeAll(S) ==
    IF S = {} THEN NoFields
    ELSE LET o == CHOOSE o \in S : TRUE IN o @@ MergeAll(S \ {o})

\* the attribute sets of at most MaxFields attributes, no attribute twice
AttributeSets ==
    {S \in SUBSET AttributeValues :
        /\ Cardinality(S) <= MaxFields
        /\ \A o1, o2 \in S : o1 # o2 => DOMAIN o1 # DOMAIN o2}

\* single steps `a` of kind sql with up to MaxFields optional attributes
AttributeSteps == {[id |-> IdA, kind |-> KindSql] @@ MergeAll(S) : S \in AttributeSets}

\* single steps of every kind of the closed set and of two kinds outside it,
\* with and without a format
KindSteps ==
    {[id |-> IdA, kind |-> k] @@ f :
        k \in {validKinds[i] : i \in 1..Len(validKinds)} \cup {KindBogus, KindCapital},
        f \in {NoFields, [x \in {"format"} |-> <<"c","s","v">>]}}

\* steps of a dependency graph: two ids, a source that is absent, `b` (a
\* forward, backward or self reference according to position) or unknown
GraphSteps ==
    {[id |-> i, kind |-> KindSql] @@ f :
        i \in {IdA, IdB},
        f \in {NoFields, [x \in {"source"} |-> IdB], [x \in {"source"} |-> IdGhost]}}

RECURSIVE ListsOf(_, _)
\* the lists of exactly n elements of S
ListsOf(S, n) ==
    IF n = 0 THEN {<<>>}
    ELSE {<<x>> \o l : x \in S, l \in ListsOf(S, n - 1)}

GraphLists == UNION {ListsOf(GraphSteps, n) : n \in 0..MaxSteps}

\* the text in the editor before any operation, and the pieces handwritten
\* texts are made of
PipelineP == <<"p">>
IdLoadData == <<"l","o","a","d","-","d","a","t","a">>
\* a step whose id has a hyphen, and a step that reads from it
HyphenSteps ==
    << [id |-> IdLoadData, kind |-> KindInput, format |-> <<"c","s","v">>],
       [id |-> IdB, kind |-> KindSql, source |-> IdLoadData] >>
DescDE == <<"d"," ","e">>
OldStep == [id |-> <<"o","l","d","_","s","t","e","p">>, kind |-> KindInput, format |-> <<"c","s","v">>]
NewStep == [id |-> <<"n","e","w","_","s","t","e","p">>, kind |-> KindOutput, format |-> <<"p","a","r","q","u","e","t">>]
DefaultYaml == <<"i","d",":"," ","o","r","i","g","i","n","a","l","-","i","d","\n","d","e","s","c",":"," ","O","r","i","g","i","n","a","l"," ","d","e","s","c","r","i","p","t","i","o","n","\n","s","t","e","p","s",":","\n"," "," ","-"," ","i","d",":"," ","o","l","d","_","s","t","e","p","\n"," "," "," "," ","k","i","n","d",":"," ","i","n","p","u","t">>

Prefixes == {<<>>, <<NL>>, <<"#"," ","i","d",":"," ","c","\n">>}
IdLines == {<< >>, <<<<"i","d",":"," ","p">>>>, <<<<"i","d",":","p"," "," ">>>>, <<<<"i","d",":">>>>, <<<<"i","d",":"," "," ">>>>, <<<<" "," ","i","d",":"," ","p">>>>}
DescLines == {<< >>, <<<<"d","e","s","c",":"," ","d"," ","e">>>>, <<<<"d","e","s","c",":">>>>,
              << <<"d","e","s","c",":"," ","m","y"," ","s","t","e","p","s",":">> >>}
Bodies == {<< >>, <<<<"s","t","e","p","s",":">>>>, <<<<"s","t","e","p","s",":">>, <<" "," ","-"," ","i","d",":"," ","o","l","d","_","s","t","e","p">>, <<" "," "," "," ","k","i","n","d",":"," ","i","n","p","u","t">>>>,
           <<<<>>, <<"s","t","e","p","s",":">>, <<" "," ","-"," ","i","d",":"," ","o","l","d","_","s","t","e","p">>, <<" "," "," "," ","k","i","n","d",":"," ","i","n","p","u","t">>, <<" "," "," "," ","f","o","r","m","a","t",":"," ","c","s","v">>, <<>>, <<"d","e","s","c",":"," ","l","a","t","e">>>>}
\* step entries under no header line, under an indented header line, and a
\* section with a step of unknown kind and unknown source that a later
\* top-level key ends
MoreBodies == {
    << <<" "," ","-"," ","i","d",":"," ","o","l","d","_","s","t","e","p">>, <<" "," "," "," ","k","i","n","d",":"," ","i","n","p","u","t">> >>,
    << <<" "," ","s","t","e","p","s",":">>, <<" "," ","-"," ","i","d",":"," ","o","l","d","_","s","t","e","p">>, <<" "," "," "," ","k","i","n","d",":"," ","i","n","p","u","t">> >>,
    << <<"s","t","e","p","s",":">>, <<" "," ","-"," ","i","d",":"," ","x">>, <<" "," "," "," ","k","i","n","d",":"," ","b","o","g","u","s">>, <<" "," "," "," ","s","o","u","r","c","e",":"," ","g","h","o","s","t">>,
       <<"e","x","t","r","a",":"," ","1">>, <<" "," ","-"," ","i","d",":"," ","l","a","t","e">>, <<" "," "," "," ","k","i","n","d",":"," ","s","q","l">> >> }
HandwrittenYamls ==
    {pre \o Join(i \o d \o b, <<NL>>) : pre \in Prefixes, i \in IdLines, d \in DescLines, b \in Bodies \cup MoreBodies}

\* ------------------------------------- parseYamlSteps of the edit page
Digit == {"0","1","2","3","4","5","6","7","8","9"}
\* \w
Word == Letter \cup Digit \cup {"_"}
\* [\w-]
WordOrHyphen == Word \cup {"-"}

RECURSIVE SkipClass(_, _, _)
\* greedy class* from position p
SkipClass(t, p, class) ==
    IF p <= Len(t) /\ t[p] \in class THEN SkipClass(t, p + 1, class) ELSE p

\* /key\s*(class+)/ : <<>> or <<capture>> of the leftmost match
ClassMatch(t, key, class) ==
    LET starts == {p \in 1..Len(t) :
                     /\ StartsWith(t, p, key)
                     /\ SkipWs(t, p + Len(key)) <= Len(t)
                     /\ t[SkipWs(t, p + Len(key))] \in class}
    IN  IF starts = {} THEN <<>>
        ELSE LET a == SkipWs(t, Min(starts) + Len(key))
             IN  <<SubSeq(t, a, SkipClass(t, a, class) - 1)>>

\* /steps:\s*\n([\s\S]*?)(?=\n\w|$)/ : <<>> or <<capture>>
PageStepsSection(yaml) ==
    LET starts == {p \in 1..Len(yaml) :
                     StartsWith(yaml, p, K_steps) /\ AfterLastNewline(yaml, p + Len(K_steps)) # 0}
    IN  IF starts = {} THEN <<>>
        ELSE LET c == AfterLastNewline(yaml, Min(starts) + Len(K_steps))
                 stops == {e \in c..Len(yaml) :
                             yaml[e] = NL /\ e + 1 <= Len(yaml) /\ yaml[e + 1] \in Word}
                 e == IF stops = {} THEN Len(yaml) + 1 ELSE Min(stops)
             IN  <<SubSeq(yaml, c, e - 1)>>

\* '\n  - '
PageSeparator == <<NL, " ", " ", "-", " ">>

RECURSIVE PageSplit(_, _)
\* stepsContent.split(/\n  - /) from position `from`
PageSplit(t, from) ==
    LET next == {p \in from..Len(t) : StartsWith(t, p, PageSeparator)}
    IN  IF next = {} THEN <<SubSeq(t, from, Len(t))>>
        ELSE <<SubSeq(t, from, Min(next) - 1)>>
             \o PageSplit(t, Min(next) + Len(PageSeparator))

\* the body of stepBlocks.forEach: <<>> when nothing is pushed
PageStepBlock(block) ==
    LET idMatch == ClassMatch(block, K_id, Word)
        kindMatch == ClassMatch(block, K_kind, WordOrHyphen)
    IN  IF idMatch = <<>> \/ kindMatch = <<>> THEN <<>>
        ELSE << [id |-> idMatch[1], kind |-> kindMatch[1]]
                @@ Field("format", ClassMatch(block, K_format, Word))
                @@ Field("source", ClassMatch(block, K_source, Word))
                @@ Field("path", TrimMatch(LineMatch(block, K_path))) >>

RECURSIVE PageBlocks(_)
PageBlocks(blocks) ==
    IF Len(blocks) = 0 THEN <<>>
    ELSE PageStepBlock(blocks[1]) \o PageBlocks(Tail(blocks))

\* parseYamlSteps of app/pipelines/[id]/edit/page.tsx
pageParseYamlSteps(yaml) ==
    LET stepsMatch == PageStepsSection(yaml)
    IN  IF stepsMatch = <<>> THEN <<>>
        ELSE PageBlocks(FilterNonEmpty(PageSplit(stepsMatch[1], 1)))

\* step entries of a handwritten steps section: two complete ones, one
\* without kind, one without id
EntryA == << <<" "," ","-"," ","i","d",":"," ","a">>, <<" "," "," "," ","k","i","n","d",":"," ","s","q","l">> >>
EntryB == << <<" "," ","-"," ","i","d",":"," ","b">>, <<" "," "," "," ","k","i","n","d",":"," ","i","n","p","u","t">>, <<" "," "," "," ","f","o","r","m","a","t",":"," ","c","s","v">> >>
EntryNoKind == << <<" "," ","-"," ","i","d",":"," ","c">>, <<" "," "," "," ","f","o","r","m","a","t",":"," ","c","s","v">> >>
EntryNoId == << <<" "," ","-"," ","k","i","n","d",":"," ","s","q","l">>, <<" "," "," "," ","p","a","t","h",":"," ","/","x">> >>
Entries == {EntryA, EntryB, EntryNoKind, EntryNoId}
EntryLists == UNION {ListsOf(Entries, n) : n \in 0..MaxSteps}

RECURSIVE Flatten(_)
\* the lines of a list of entries
Flatten(entries) ==
    IF Len(entries) = 0 THEN <<>> ELSE entries[1] \o Flatten(Tail(entries))

\* the text `id: p`, `steps:` and the lines of the entries
SectionYaml(entries) ==
    Join(<< <<"i","d",":"," ","p">>, K_steps >> \o Flatten(entries), <<NL>>)
SectionYamls == {SectionYaml(l) : l \in EntryLists}

\* a handwritten step with a cache and a show line of every token
BoolTokens == {<<"t","r","u","e">>, <<"f","a","l","s","e">>, <<"y","e","s">>, <<"1">>, <<"t","r","u","e","l","y">>, <<"f","a","l","s","e","y">>}
BoolLines(key) == {<<>>} \cup {<<AttrLine(key, tok)>> : tok \in BoolTokens}
BoolYaml(cacheLine, showLine) ==
    Join(<< <<"i","d",":"," ","p">>, K_steps >> \o EntryA \o cacheLine \o showLine, <<NL>>)
BoolYamls == {BoolYaml(c, w) : c \in BoolLines(K_cache), w \in BoolLines(K_show)}

\* inputs: the arguments of the operations
Input(s, pid, pdesc, text) ==
    [steps |-> s, pipelineId |-> pid, pipelineDesc |-> pdesc, existingYaml |-> text]

Inputs ==
    {Input(<<st>>, <<PipelineP>>, <<>>, DefaultYaml) : st \in AttributeSteps \cup KindSteps}
    \cup {Input(l, <<PipelineP>>, <<>>, DefaultYaml) : l \in GraphLists \cup {HyphenSteps}}
    \cup {Input(<<OldStep, NewStep>>, pid, pdesc, DefaultYaml) :
            pid \in {<<>>, << <<>> >>, <<PipelineP>>},
            pdesc \in {<<>>, << <<>> >>, <<DescDE>>}}
    \cup {Input(l, <<>>, <<>>, text) :
            l \in {<<>>, <<NewStep>>}, text \in HandwrittenYamls}
    \cup {Input(<<>>, <<>>, <<>>, text) : text \in SectionYamls \cup BoolYamls}

\* ------------------------------------------------------ the state machine
VARIABLES
    steps,          \* the Step[] argument
    pipelineId,     \* the pipelineId argument, <<>> when omitted
    pipelineDesc,   \* the pipelineDesc argument, <<>> when omitted
    existingYaml,   \* the handwritten text
    yaml,           \* the text under processing
    origin,         \* how yaml was obtained
    metadata,       \* extractPipelineMetadata(yaml)
    parsed,         \* parseYamlSteps(yaml)
    validation,     \* validateYaml(yaml)
    reyaml,         \* the parsed steps serialized again
    pageSteps,      \* <<>>, or <<the steps the edit page parsed from yaml>>
    pc              \* the next operation

\* the run endpoints of the mock server and of the API server
VARIABLES
    mockRuns,       \* store.runs of the mock server: run id -> status
    mockTimers,     \* the run ids with a pending completion timeout
    apiRuns,        \* the runs table of the API server: run id -> status
    apiExec         \* run id -> steps simulateExecution has completed

\* one LogsWebSocket
VARIABLES
    sockets,            \* the WebSocket objects created so far: index -> readyState
    ws,                 \* this.ws: an index into sockets, 0 for null
    reconnectAttempts,  \* this.reconnectAttempts
    reconnectTimeout,   \* this.reconnectTimeout: a timer handle, 0 for null
    timers,             \* the handles of the pending timeouts
    timersCreated,      \* the number of setTimeout calls
    connects,           \* the number of connect() calls
    closeCalled         \* close() has been called

\* the scheduler of the API server
VARIABLES
    rows,           \* the schedules table: schedule id -> row state
    scheduledJobs,  \* the scheduledJobs map: schedule id -> job, 0 when absent
    jobs,           \* the cron jobs created so far: job -> [schedule, running]
    requests,       \* the requests in flight, each at an await
    issued          \* the number of requests received

runVars == <<mockRuns, mockTimers, apiRuns, apiExec>>
wsVars == <<sockets, ws, reconnectAttempts, reconnectTimeout, timers, timersCreated,
           connects, closeCalled>>
schedVars == <<rows, scheduledJobs, jobs, requests, issued>>
yamlVars == <<steps, pipelineId, pipelineDesc, existingYaml, yaml, origin,
              metadata, parsed, validation, reyaml, pageSteps, pc>>

RunIds == 1..MaxRuns
ScheduleIds == 1..MaxSchedules

\* no run has been started on either server
NoRuns ==
    /\ mockRuns = [r \in RunIds |-> "none"]
    /\ mockTimers = {}
    /\ apiRuns = [r \in RunIds |-> "none"]
    /\ apiExec = [r \in RunIds |-> 0]

\* no LogsWebSocket has been constructed
NoLogsWebSocket ==
    /\ sockets = <<>>
    /\ ws = 0
    /\ reconnectAttempts = 0
    /\ reconnectTimeout = 0
    /\ timers = {}
    /\ timersCreated = 0
    /\ connects = 0
    /\ closeCalled = FALSE

\* an empty schedules table and an empty scheduledJobs map
NoSchedules ==
    /\ rows = [i \in ScheduleIds |-> "absent"]
    /\ scheduledJobs = [i \in ScheduleIds |-> 0]
    /\ jobs = <<>>
    /\ requests = {}
    /\ issued = 0

\* the editor with no text operation applied
NoText ==
    /\ steps = <<>>
    /\ pipelineId = <<>>
    /\ pipelineDesc = <<>>
    /\ existingYaml = <<>>
    /\ yaml = <<>>
    /\ origin = "handwritten"
    /\ metadata = [id |-> <<>>, desc |-> <<>>]
    /\ parsed = <<>>
    /\ validation = [valid |-> FALSE, errors |-> <<>>]
    /\ reyaml = <<>>
    /\ pageSteps = <<>>
    /\ pc = "edit"

vars == <<yamlVars, runVars, wsVars, schedVars>>

\* what the text operations leave alone
servers == <<runVars, wsVars, schedVars>>

args == <<steps, pipelineId, pipelineDesc, existingYaml>>

Init ==
    /\ \E in \in Inputs :
        /\ steps = in.steps
        /\ pipelineId = in.pipelineId
        /\ pipelineDesc = in.pipelineDesc
        /\ existingYaml = in.existingYaml
    /\ yaml = existingYaml
    /\ origin = "handwritten"
    /\ metadata = [id |-> <<>>, desc |-> <<>>]
    /\ parsed = <<>>
    /\ validation = [valid |-> FALSE, errors |-> <<>>]
    /\ reyaml = <<>>
    /\ pageSteps = <<>>
    /\ pc = "edit"
    /\ NoRuns /\ NoLogsWebSocket /\ NoSchedules

\* yaml = stepsToYaml(steps, pipelineId, pipelineDesc)
StepsToYaml ==
    /\ pc = "edit"
    /\ yaml' = stepsToYaml(steps, pipelineId, pipelineDesc)
    /\ origin' = "stepsToYaml"
    /\ pc' = "text"
    /\ UNCHANGED <<servers, pageSteps, args, metadata, parsed, validation, reyaml>>

\* yaml = mergeStepsIntoYaml(existingYaml, steps)
MergeStepsIntoYaml ==
    /\ pc = "edit"
    /\ yaml' = mergeStepsIntoYaml(existingYaml, steps)
    /\ origin' = "mergeStepsIntoYaml"
    /\ pc' = "text"
    /\ UNCHANGED <<servers, pageSteps, args, metadata, parsed, validation, reyaml>>

\* metadata = extractPipelineMetadata(yaml), on the handwritten text or on
\* the text just produced
ExtractPipelineMetadata ==
    /\ pc \in {"edit", "text"}
    /\ metadata' = extractPipelineMetadata(yaml)
    /\ pc' = "extracted"
    /\ UNCHANGED <<servers, pageSteps, args, yaml, origin, parsed, validation, reyaml>>

\* parsed = parseYamlSteps(yaml)
ParseYamlSteps ==
    /\ pc = "extracted"
    /\ parsed' = parseYamlSteps(yaml)
    /\ pc' = "parsed"
    /\ UNCHANGED <<servers, pageSteps, args, yaml, origin, metadata, validation, reyaml>>

\* validation = validateYaml(yaml)
ValidateYaml ==
    /\ pc = "parsed"
    /\ validation' = validateYaml(yaml)
    /\ pc' = "validated"
    /\ UNCHANGED <<servers, pageSteps, args, yaml, origin, metadata, parsed, reyaml>>

\* reyaml = stepsToYaml(parsed, ...) with the pipeline id and desc yaml was
\* produced with
Reserialize ==
    /\ pc = "validated"
    /\ reyaml' = IF origin = "stepsToYaml"
                 THEN stepsToYaml(parsed, pipelineId, pipelineDesc)
                 ELSE mergeStepsIntoYaml(existingYaml, parsed)
    /\ pc' = "done"
    /\ UNCHANGED <<servers, pageSteps, args, yaml, origin, metadata, parsed, validation>>

\* the edit page loads the text and parses it with its own parseYamlSteps
EditPageParseYamlSteps ==
    /\ pc = "done"
    /\ pageSteps = <<>>
    /\ pageSteps' = <<pageParseYamlSteps(yaml)>>
    /\ UNCHANGED <<servers, args, yaml, origin, metadata, parsed, validation, reyaml, pc>>

Next ==
    \/ StepsToYaml
    \/ MergeStepsIntoYaml
    \/ ExtractPipelineMetadata
    \/ ParseYamlSteps
    \/ ValidateYaml
    \/ Reserialize
    \/ EditPageParseYamlSteps

Spec == Init /\ [][Next]_vars

\* ------------------------------------------- runs: start, finish, cancel
\* what the run endpoints leave alone
notRuns == <<yamlVars, wsVars, schedVars>>

InitRuns == NoText /\ NoRuns /\ NoLogsWebSocket /\ NoSchedules

\* the id of the next run of a server whose runs are `runs`
NextRunId(runs) == Cardinality({r \in RunIds : runs[r] # "none"}) + 1

\* mock server, POST /api/v2/pipelines/:id/run: the run is stored as
\* running and its completion timeout is set
MockRunPipeline ==
    /\ NextRunId(mockRuns) \in RunIds
    /\ mockRuns' = [mockRuns EXCEPT ![NextRunId(mockRuns)] = "running"]
    /\ mockTimers' = mockTimers \cup {NextRunId(mockRuns)}
    /\ UNCHANGED <<apiRuns, apiExec, notRuns>>

\* mock server, the timeout callback: the run is in the store, and its
\* status becomes what Math.random() decides
MockCompletion ==
    \E r \in mockTimers, success \in BOOLEAN :
        /\ mockRuns' = [mockRuns EXCEPT ![r] = IF success THEN "success" ELSE "failed"]
        /\ mockTimers' = mockTimers \ {r}
        /\ UNCHANGED <<apiRuns, apiExec, notRuns>>

\* mock server, POST /api/v2/runs/:id/cancel for a run of the store
MockCancel ==
    \E r \in RunIds :
        /\ mockRuns[r] # "none"
        /\ mockRuns' = [mockRuns EXCEPT ![r] = "cancelled"]
        /\ UNCHANGED <<mockTimers, apiRuns, apiExec, notRuns>>

\* API server, runPipeline: the run is inserted as running and
\* simulateExecution starts in the background
RunPipeline ==
    /\ NextRunId(apiRuns) \in RunIds
    /\ apiRuns' = [apiRuns EXCEPT ![NextRunId(apiRuns)] = "running"]
    /\ apiExec' = [apiExec EXCEPT ![NextRunId(apiRuns)] = 0]
    /\ UNCHANGED <<mockRuns, mockTimers, notRuns>>

\* API server, simulateExecution: one iteration of the loop over the steps
SimulateStep ==
    \E r \in RunIds :
        /\ apiRuns[r] # "none"
        /\ apiExec[r] < MaxRunSteps
        /\ apiExec' = [apiExec EXCEPT ![r] = apiExec[r] + 1]
        /\ UNCHANGED <<mockRuns, mockTimers, apiRuns, notRuns>>

\* API server, simulateExecution after the loop:
\* UPDATE runs SET status = 'success' WHERE id = $1
SimulateComplete ==
    \E r \in RunIds :
        /\ apiRuns[r] # "none"
        /\ apiExec[r] = MaxRunSteps
        /\ apiRuns' = [apiRuns EXCEPT ![r] = "success"]
        /\ apiExec' = [apiExec EXCEPT ![r] = MaxRunSteps + 1]
        /\ UNCHANGED <<mockRuns, mockTimers, notRuns>>

\* API server, cancelRun:
\* UPDATE runs SET status = 'cancelled' WHERE id = $1 AND status = 'running'
CancelRun ==
    \E r \in RunIds :
        /\ apiRuns[r] # "none"
        /\ apiRuns' = [apiRuns EXCEPT ![r] = IF apiRuns[r] = "running" THEN "cancelled" ELSE apiRuns[r]]
        /\ UNCHANGED <<mockRuns, mockTimers, apiExec, notRuns>>

NextRuns ==
    \/ MockRunPipeline
    \/ MockCompletion
    \/ MockCancel
    \/ RunPipeline
    \/ SimulateStep
    \/ SimulateComplete
    \/ CancelRun

SpecRuns == InitRuns /\ [][NextRuns]_vars

\* ---------------------------------------------------------- LogsWebSocket
\* private maxReconnectAttempts = 5
maxReconnectAttempts == 5

\* what a LogsWebSocket leaves alone
notWs == <<yamlVars, runVars, schedVars>>

\* the readyStates in which a socket still delivers its close event
Live == {"connecting", "open", "closing"}

\* this.reconnectAttempts > this.maxReconnectAttempts
MaxAttemptsReached_OffByOne(attempts) == attempts > maxReconnectAttempts
\* this.reconnectAttempts >= this.maxReconnectAttempts
MaxAttemptsReached(attempts) == attempts >= maxReconnectAttempts

\* attemptReconnect(), with `pending` the timeouts pending when it is called
AttemptReconnect(pending) ==
    IF MaxAttemptsReached(reconnectAttempts)
    THEN /\ timers' = pending
         /\ UNCHANGED <<reconnectAttempts, reconnectTimeout, timersCreated>>
    ELSE /\ reconnectAttempts' = reconnectAttempts + 1
         /\ timersCreated' = timersCreated + 1
         /\ reconnectTimeout' = timersCreated + 1
         /\ timers' = pending \cup {timersCreated + 1}

\* the state the constructor leaves: connect() has run once, and either
\* new WebSocket gave a socket or it threw and attemptReconnect() ran
InitWs ==
    /\ NoText /\ NoRuns /\ NoSchedules
    /\ connects = 1
    /\ closeCalled = FALSE
    /\ \/ /\ sockets = <<"connecting">>
          /\ ws = 1
          /\ reconnectAttempts = 0
          /\ reconnectTimeout = 0
          /\ timers = {}
          /\ timersCreated = 0
       \/ /\ sockets = <<>>
          /\ ws = 0
          /\ reconnectAttempts = 1
          /\ reconnectTimeout = 1
          /\ timers = {1}
          /\ timersCreated = 1

\* onopen of a socket
OnOpen ==
    \E i \in 1..Len(sockets) :
        /\ sockets[i] = "connecting"
        /\ sockets' = [sockets EXCEPT ![i] = "open"]
        /\ reconnectAttempts' = 0
        /\ UNCHANGED <<ws, reconnectTimeout, timers, timersCreated, connects, closeCalled, notWs>>

\* onclose of a socket: the handler stays on the socket whatever this.ws is
OnClose ==
    \E i \in 1..Len(sockets) :
        /\ sockets[i] \in Live
        /\ sockets' = [sockets EXCEPT ![i] = "closed"]
        /\ AttemptReconnect(timers)
        /\ UNCHANGED <<ws, connects, closeCalled, notWs>>

\* the reconnect timeout fires and connect() gets a socket
ReconnectConnects ==
    \E t \in timers :
        /\ connects < MaxConnects
        /\ connects' = connects + 1
        /\ sockets' = Append(sockets, "connecting")
        /\ ws' = Len(sockets) + 1
        /\ timers' = timers \ {t}
        /\ UNCHANGED <<reconnectAttempts, reconnectTimeout, timersCreated, closeCalled, notWs>>

\* the reconnect timeout fires, new WebSocket throws and the catch block
\* calls attemptReconnect()
ReconnectThrows ==
    \E t \in timers :
        /\ connects < MaxConnects
        /\ connects' = connects + 1
        /\ AttemptReconnect(timers \ {t})
        /\ UNCHANGED <<sockets, ws, closeCalled, notWs>>

\* close(): clearTimeout of the stored handle, then this.ws.close() and
\* this.ws = null; the handle is kept
Close ==
    /\ closeCalled' = TRUE
    /\ timers' = timers \ {reconnectTimeout}
    /\ IF ws # 0
       THEN /\ sockets' = [sockets EXCEPT ![ws] =
                              IF sockets[ws] \in {"connecting", "open"} THEN "closing" ELSE sockets[ws]]
            /\ ws' = 0
       ELSE UNCHANGED <<sockets, ws>>
    /\ UNCHANGED <<reconnectAttempts, reconnectTimeout, timersCreated, connects, notWs>>

NextWs ==
    \/ OnOpen
    \/ OnClose
    \/ ReconnectConnects
    \/ ReconnectThrows
    \/ Close

SpecWs == InitWs /\ [][NextWs]_vars

\* -------------------------------------------------------------- scheduler
\* what the schedule endpoints leave alone
notSched == <<yamlVars, runVars, wsVars>>

\* initializeScheduler() on an empty schedules table
InitSched == NoText /\ NoRuns /\ NoLogsWebSocket /\ NoSchedules

\* the id the next INSERT generates: ids are never used twice
NextScheduleId == Cardinality({i \in ScheduleIds : rows[i] # "absent"}) + 1

\* the ids a client can name: those a finished createSchedule has returned
Known(id) ==
    /\ rows[id] # "absent"
    /\ \A q \in requests : ~(q.op = "create" /\ q.id = id)

\* the state of a row whose enabled column is `enabled`
RowOf(enabled) == IF enabled THEN "enabled" ELSE "disabled"

\* the jobs scheduleJob leaves for a schedule: the job of the map is stopped
\* and a new one started
JobsAfterScheduleJob(id) ==
    Append(IF scheduledJobs[id] # 0
           THEN [jobs EXCEPT ![scheduledJobs[id]].running = FALSE]
           ELSE jobs,
           [schedule |-> id, running |-> TRUE])

\* scheduleJob(schedule)
ScheduleJob(id) ==
    /\ jobs' = JobsAfterScheduleJob(id)
    /\ scheduledJobs' = [scheduledJobs EXCEPT ![id] = Len(jobs) + 1]

\* scheduledJobs.get(id).stop(); scheduledJobs.delete(id), when the map has id
Unregister(id) ==
    IF scheduledJobs[id] # 0
    THEN /\ jobs' = [jobs EXCEPT ![scheduledJobs[id]].running = FALSE]
         /\ scheduledJobs' = [scheduledJobs EXCEPT ![id] = 0]
    ELSE UNCHANGED <<jobs, scheduledJobs>>

\* createSchedule up to its first await: the INSERT has made the row
CreateInsert ==
    \E enabled \in BOOLEAN :
        /\ issued < MaxRequests
        /\ NextScheduleId \in ScheduleIds
        /\ issued' = issued + 1
        /\ rows' = [rows EXCEPT ![NextScheduleId] = RowOf(enabled)]
        /\ requests' = requests \cup
             {[n |-> issued + 1, op |-> "create", id |-> NextScheduleId, enabled |-> enabled]}
        /\ UNCHANGED <<scheduledJobs, jobs, notSched>>

\* createSchedule after the pipeline query: the returned row decides
CreateRegister ==
    \E q \in requests :
        /\ q.op = "create"
        /\ IF q.enabled THEN ScheduleJob(q.id) ELSE UNCHANGED <<jobs, scheduledJobs>>
        /\ requests' = requests \ {q}
        /\ UNCHANGED <<rows, issued, notSched>>

\* updateSchedule up to its first await: the UPDATE has run; data.enabled is
\* true, false or undefined (<<>>); no row gives the 404 error
UpdateRow ==
    \E id \in ScheduleIds, enabled \in {<<>>, <<TRUE>>, <<FALSE>>} :
        /\ issued < MaxRequests
        /\ Known(id)
        /\ issued' = issued + 1
        /\ IF rows[id] = "deleted"
           THEN UNCHANGED <<rows, requests>>
           ELSE LET now == IF enabled = <<>> THEN rows[id] ELSE RowOf(enabled[1])
                IN  /\ rows' = [rows EXCEPT ![id] = now]
                    /\ requests' = requests \cup
                         {[n |-> issued + 1, op |-> "update", id |-> id, enabled |-> now = "enabled"]}
        /\ UNCHANGED <<scheduledJobs, jobs, notSched>>

\* updateSchedule after its awaits, with the row the UPDATE returned
UpdateRegister ==
    \E q \in requests :
        /\ q.op = "update"
        /\ IF q.enabled THEN ScheduleJob(q.id) ELSE Unregister(q.id)
        /\ requests' = requests \ {q}
        /\ UNCHANGED <<rows, issued, notSched>>

\* deleteSchedule up to its await: the job is stopped and removed at once
DeleteUnregister ==
    \E id \in ScheduleIds :
        /\ issued < MaxRequests
        /\ Known(id)
        /\ issued' = issued + 1
        /\ Unregister(id)
        /\ requests' = requests \cup {[n |-> issued + 1, op |-> "delete", id |-> id, enabled |-> FALSE]}
        /\ UNCHANGED <<rows, notSched>>

\* deleteSchedule: DELETE FROM schedules WHERE id = $1
DeleteRow ==
    \E q \in requests :
        /\ q.op = "delete"
        /\ rows' = [rows EXCEPT ![q.id] = "deleted"]
        /\ requests' = requests \ {q}
        /\ UNCHANGED <<scheduledJobs, jobs, issued, notSched>>

NextSched ==
    \/ CreateInsert
    \/ CreateRegister
    \/ UpdateRow
    \/ UpdateRegister
    \/ DeleteUnregister
    \/ DeleteRow

SpecSched == InitSched /\ [][NextSched]_vars

\* ================================================================ claims
\* the operations that have been applied to yaml
Parsed == pc \in {"parsed", "validated", "done"}
Validated == pc \in {"validated", "done"}
Reserialized == pc = "done"

StepIds(list) == {list[i].id : i \in 1..Len(list)}
IdList(list) == [i \in 1..Len(list) |-> list[i].id]
Count(seq, x) == Cardinality({i \in 1..Len(seq) : seq[i] = x})
HasNewline(t) == \E i \in 1..Len(t) : t[i] = NL
StringFields == {"id", "kind", "shortDesc", "desc", "source", "format", "path", "schema"}
\* no text attribute other than sql holds a newline
NewlineOnlyInSql(list) ==
    \A i \in 1..Len(list) :
        /\ \A f \in DOMAIN list[i] \cap StringFields : ~HasNewline(list[i][f])
        /\ Has(list[i], "dependsOn") =>
              \A j \in 1..Len(list[i].dependsOn) : ~HasNewline(list[i].dependsOn[j])
        /\ Has(list[i], "options") =>
              \A j \in 1..Len(list[i].options) :
                  ~HasNewline(list[i].options[j][1]) /\ ~HasNewline(list[i].options[j][2])

\* C1: parsing the serialization of a step list whose text attributes hold no
\* newline outside sql gives back the same list, step by step and attribute by
\* attribute (desc included).
C1_RoundTrip ==
    (origin = "stepsToYaml" /\ Parsed /\ NewlineOnlyInSql(steps)) => parsed = steps

\* C2: a step with a multi-line sql is written as a `sql: |` block scalar with
\* every sql line indented, and parsing that text gives the identical
\* multi-line sql.
SqlBlockMarker == Indent4 \o K_sql \o <<" ", "|", NL>>
C2_MultiLineSqlRoundTrip ==
    (/\ origin = "stepsToYaml"
     /\ Parsed
     /\ Len(steps) = 1
     /\ Has(steps[1], "sql")
     /\ HasNewline(steps[1].sql))
    => /\ Includes(yaml, SqlBlockMarker)
       /\ \A i \in 1..Len(SplitLines(steps[1].sql)) :
             Includes(yaml, <<NL>> \o Indent6 \o SplitLines(steps[1].sql)[i])
       /\ Len(parsed) = 1
       /\ Has(parsed[1], "sql")
       /\ parsed[1].sql = steps[1].sql

\* C3: serializing the parsed serialization of a step list, with the same
\* pipeline id and desc, gives the same text as the first serialization.
C3_IdempotentReserialization ==
    (origin = "stepsToYaml" /\ Reserialized) => reyaml = yaml

\* the messages as the specification words them
MsgMissingId == <<"P","i","p","e","l","i","n","e"," ","m","u","s","t"," ","h","a","v","e"," ","a","n"," ","'","i","d","'"," ","f","i","e","l","d">>
MsgDuplicatePrefix == <<"D","u","p","l","i","c","a","t","e"," ","s","t","e","p"," ","I","D",":"," ","'">>
MsgDuplicate(id) == MsgDuplicatePrefix \o id \o <<"'">>
MsgInvalidKindPrefix == <<"I","n","v","a","l","i","d"," ","s","t","e","p"," ","k","i","n","d"," ","'">>
MsgInvalidKind(kind, id) == MsgInvalidKindPrefix \o kind \o <<"'"," ","i","n"," ","s","t","e","p"," ","'">> \o id \o <<"'">>
MsgNoFormatSuffix == <<"'"," ","s","h","o","u","l","d"," ","s","p","e","c","i","f","y"," ","a"," ","f","o","r","m","a","t">>
MsgNoFormat(id, kind) == <<"S","t","e","p"," ","'">> \o id \o <<"'"," ","o","f"," ","k","i","n","d"," ","'">> \o kind \o MsgNoFormatSuffix
MsgUnknownSourceInfix == <<"'"," ","r","e","f","e","r","e","n","c","e","s"," ","u","n","k","n","o","w","n"," ","s","o","u","r","c","e"," ","'">>
MsgUnknownSource(id, source) == <<"S","t","e","p"," ","'">> \o id \o MsgUnknownSourceInfix \o source \o <<"'">>
CountWith(seq, lit) == Cardinality({i \in 1..Len(seq) : Includes(seq[i], lit)})

\* the value written on the first non-indented line that starts with key:
\* <<>> when there is no such line, <<value>> (trimmed, maybe empty) otherwise
FirstTopLevelValue(text, key) ==
    LET lines == SplitLines(text)
        hits == {i \in 1..Len(lines) : StartsWith(lines[i], 1, key)}
    IN  IF hits = {} THEN <<>>
        ELSE <<Trim(SubSeq(lines[Min(hits)], Len(key) + 1, Len(lines[Min(hits)])))>>
HasTopLevelValue(text, key) ==
    FirstTopLevelValue(text, key) # <<>> /\ Len(FirstTopLevelValue(text, key)[1]) > 0

IdLineWithValue(text) ==
    \E i \in 1..Len(SplitLines(text)) :
        LET line == SplitLines(text)[i]
        IN  StartsWith(line, 1, K_id) /\ SkipWs(line, Len(K_id) + 1) <= Len(line)

\* C5: the errors hold "Pipeline must have an 'id' field" exactly when no
\* non-indented `id:` line carries a non-whitespace value on that line.
C5_MissingIdError ==
    Validated => (Count(validation.errors, MsgMissingId) > 0 <=> ~IdLineWithValue(yaml))

\* C6: a step gets "references unknown source" exactly when it has a source
\* that is the id of no step of the whole parsed list, so a source naming a
\* later step raises nothing.
UnresolvedSource(i) ==
    Has(parsed[i], "source") /\ parsed[i].source \notin StepIds(parsed)
C6_ForwardReferenceTolerance ==
    Validated =>
        /\ \A i \in 1..Len(parsed) :
              Has(parsed[i], "source") =>
                 Count(validation.errors, MsgUnknownSource(parsed[i].id, parsed[i].source))
                 = Cardinality({j \in 1..Len(parsed) :
                                  /\ UnresolvedSource(j)
                                  /\ parsed[j].id = parsed[i].id
                                  /\ parsed[j].source = parsed[i].source})
        /\ CountWith(validation.errors, MsgUnknownSourceInfix)
           = Cardinality({j \in 1..Len(parsed) : UnresolvedSource(j)})

\* a step references a step defined only later, another one an unknown id
C6_Witness ==
    /\ Validated
    /\ \E i, j, k \in 1..Len(parsed) :
          /\ i < j
          /\ Has(parsed[i], "source")
          /\ parsed[i].source = parsed[j].id
          /\ \A h \in 1..i : parsed[h].id # parsed[i].source
          /\ UnresolvedSource(k)
    /\ CountWith(validation.errors, MsgUnknownSourceInfix) = 1

\* C7: in a text that validates, every source and every dependsOn entry of
\* every parsed step is the id of a parsed step.
C7_ReferenceIntegrity ==
    (Validated /\ validation.valid) =>
        \A i \in 1..Len(parsed) :
            /\ Has(parsed[i], "source") => parsed[i].source \in StepIds(parsed)
            /\ Has(parsed[i], "dependsOn") =>
                  \A j \in 1..Len(parsed[i].dependsOn) :
                      parsed[i].dependsOn[j] \in StepIds(parsed)

\* C8: an id that k steps carry gets k-1 "Duplicate step ID" errors, and a
\* text that validates has pairwise distinct step ids.
Occurrences(list, id) == Cardinality({i \in 1..Len(list) : list[i].id = id})
C8_DuplicateDetection ==
    Validated =>
        /\ \A id \in StepIds(parsed) :
              Count(validation.errors, MsgDuplicate(id)) = Occurrences(parsed, id) - 1
        /\ CountWith(validation.errors, MsgDuplicatePrefix)
           = Len(parsed) - Cardinality(StepIds(parsed))
        /\ validation.valid => Cardinality(StepIds(parsed)) = Len(parsed)

\* an id carried by three parsed steps has exactly two errors
C8_Witness ==
    /\ Validated
    /\ \E id \in StepIds(parsed) :
          Occurrences(parsed, id) = 3 /\ Count(validation.errors, MsgDuplicate(id)) = 2

\* the closed set of step kinds
ClosedKinds == {
    <<"i","n","p","u","t">>,
    <<"i","n","p","u","t","-","s","t","r","e","a","m">>,
    <<"s","q","l">>,
    <<"v","a","r","i","a","b","l","e">>,
    <<"s","c","r","i","p","t">>,
    <<"c","u","s","t","o","m">>,
    <<"c","u","s","t","o","m","I","n","p","u","t">>,
    <<"a","v","r","o","-","s","e","r","d","e">>,
    <<"u","d","f">>,
    <<"o","u","t","p","u","t">>,
    <<"o","u","t","p","u","t","-","s","t","r","e","a","m">>,
    <<"p","a","r","s","e","-","j","s","o","n">> }

\* C9: the parser keeps a kind outside the closed set unchanged, and the
\* validator reports "Invalid step kind" once for each step of such a kind
\* and never for a kind of the set.
BadKind(i) == parsed[i].kind \notin ClosedKinds
C9_UnknownKinds ==
    /\ (origin = "stepsToYaml" /\ Parsed) =>
          /\ Len(parsed) = Len(steps)
          /\ \A i \in 1..Len(steps) : parsed[i].kind = steps[i].kind
    /\ Validated =>
          /\ \A i \in 1..Len(parsed) :
                Count(validation.errors, MsgInvalidKind(parsed[i].kind, parsed[i].id))
                = Cardinality({j \in 1..Len(parsed) :
                                 /\ BadKind(j)
                                 /\ parsed[j].kind = parsed[i].kind
                                 /\ parsed[j].id = parsed[i].id})
          /\ CountWith(validation.errors, MsgInvalidKindPrefix)
             = Cardinality({j \in 1..Len(parsed) : BadKind(j)})

\* a serialized step of a kind outside the set was parsed and reported once
C9_Witness ==
    /\ origin = "stepsToYaml"
    /\ Validated
    /\ Len(parsed) = 1
    /\ steps[1].kind = KindBogus
    /\ validation.errors = <<MsgInvalidKind(KindBogus, IdA)>>

\* C10: a step gets "should specify a format" exactly when its kind is input
\* or output and it has no format.
NeedsFormat(i) ==
    /\ parsed[i].kind \in {<<"i","n","p","u","t">>, <<"o","u","t","p","u","t">>}
    /\ ~Has(parsed[i], "format")
C10_FormatRequirement ==
    Validated =>
        /\ \A i \in 1..Len(parsed) :
              Count(validation.errors, MsgNoFormat(parsed[i].id, parsed[i].kind))
              = Cardinality({j \in 1..Len(parsed) :
                               /\ NeedsFormat(j)
                               /\ parsed[j].id = parsed[i].id
                               /\ parsed[j].kind = parsed[i].kind})
        /\ CountWith(validation.errors, MsgNoFormatSuffix)
           = Cardinality({j \in 1..Len(parsed) : NeedsFormat(j)})

\* an output step without format was reported
C10_Witness ==
    /\ Validated
    /\ Len(parsed) = 1
    /\ parsed[1].kind = <<"o","u","t","p","u","t">>
    /\ ~Has(parsed[1], "format")
    /\ validation.errors = <<MsgNoFormat(parsed[1].id, parsed[1].kind)>>

MsgMissingSteps == <<"P","i","p","e","l","i","n","e"," ","m","u","s","t"," ","h","a","v","e"," ","a"," ","'","s","t","e","p","s","'"," ","s","e","c","t","i","o","n">>
MsgNoSteps == <<"P","i","p","e","l","i","n","e"," ","m","u","s","t"," ","h","a","v","e"," ","a","t"," ","l","e","a","s","t"," ","o","n","e"," ","s","t","e","p">>
\* the characters `steps:` occur somewhere in the text
ContainsStepsText(text) ==
    \E p \in 1..(Len(text) - 5) : SubSeq(text, p, p + 5) = <<"s","t","e","p","s",":">>
\* the numbers of parsed steps that each per-step check concerns
DuplicateCount == Len(parsed) - Cardinality(StepIds(parsed))
BadKindCount == Cardinality({i \in 1..Len(parsed) : BadKind(i)})
NeedsFormatCount == Cardinality({i \in 1..Len(parsed) : NeedsFormat(i)})
UnresolvedCount == Cardinality({i \in 1..Len(parsed) : UnresolvedSource(i)})

\* C11: every check reports whatever the others found: a text without a
\* non-indented `id:` line has the missing-id error, a text without `steps:`
\* the missing-section error, an empty parsed list the at-least-one-step
\* error, and the duplicate, kind, format and source errors are as many as
\* the steps they concern; the errors are all of these and nothing else.
C11_ValidatorAccumulation ==
    Validated =>
        /\ FirstTopLevelValue(yaml, K_id) = <<>> => Count(validation.errors, MsgMissingId) = 1
        /\ ~ContainsStepsText(yaml) => Count(validation.errors, MsgMissingSteps) = 1
        /\ Len(parsed) = 0 => Count(validation.errors, MsgNoSteps) = 1
        /\ CountWith(validation.errors, MsgDuplicatePrefix) = DuplicateCount
        /\ CountWith(validation.errors, MsgInvalidKindPrefix) = BadKindCount
        /\ CountWith(validation.errors, MsgNoFormatSuffix) = NeedsFormatCount
        /\ CountWith(validation.errors, MsgUnknownSourceInfix) = UnresolvedCount
        /\ Len(validation.errors)
           = Count(validation.errors, MsgMissingId) + Count(validation.errors, MsgMissingSteps)
             + Count(validation.errors, MsgNoSteps)
             + DuplicateCount + BadKindCount + NeedsFormatCount + UnresolvedCount

\* a text with no top-level id whose step has an invalid kind and an
\* unresolved source got the three errors together
C11_Witness ==
    /\ Validated
    /\ FirstTopLevelValue(yaml, K_id) = <<>>
    /\ Len(parsed) = 1
    /\ BadKind(1)
    /\ UnresolvedSource(1)
    /\ validation.errors = <<MsgMissingId, MsgInvalidKind(parsed[1].kind, parsed[1].id),
                             MsgUnknownSource(parsed[1].id, parsed[1].source)>>

\* a non-indented line holds `steps:` and nothing else but blanks
HasStepsLine(text) ==
    \E i \in 1..Len(SplitLines(text)) :
        LET line == SplitLines(text)[i]
        IN  StartsWith(line, 1, K_steps) /\ SkipWs(line, Len(K_steps) + 1) > Len(line)

C13_ResultShape ==
    Validated =>
        /\ DOMAIN validation = {"valid", "errors"}
        /\ DOMAIN validation.errors = 1..Len(validation.errors)
        /\ validation.valid \in BOOLEAN
        /\ validation.valid <=> Len(validation.errors) = 0

\* a text with steps validated without errors
C13_Witness ==
    /\ Validated
    /\ Len(parsed) > 0
    /\ validation.valid
    /\ validation.errors = <<>>

\* the index of the first non-indented `steps:` line (0 when there is none)
StepsLineIndex(text) ==
    LET lines == SplitLines(text)
        hits == {i \in 1..Len(lines) :
                   /\ StartsWith(lines[i], 1, K_steps)
                   /\ SkipWs(lines[i], Len(K_steps) + 1) > Len(lines[i])}
    IN  IF hits = {} THEN 0 ELSE Min(hits)
\* the index of the first line after line h that starts with no blank (a
\* top-level key), or the number of lines plus one
SectionEndIndex(text, h) ==
    LET lines == SplitLines(text)
        hits == {i \in (h + 1)..Len(lines) : Len(lines[i]) > 0 /\ lines[i][1] \notin Ws}
    IN  IF hits = {} THEN Len(lines) + 1 ELSE Min(hits)
\* the line opens the sequence entry of the step id
IsEntryLineOf(line, id) == Trim(line) = <<"-", " ", "i", "d", ":", " ">> \o id

\* C14: without a non-indented `steps:` line no step is parsed, and with one
\* every parsed step is an entry written between that line and the next
\* non-indented line.
C14_StepsSectionLocation ==
    Parsed =>
        IF StepsLineIndex(yaml) = 0 THEN parsed = <<>>
        ELSE \A k \in 1..Len(parsed) :
                \E i \in (StepsLineIndex(yaml) + 1)..(SectionEndIndex(yaml, StepsLineIndex(yaml)) - 1) :
                    IsEntryLineOf(SplitLines(yaml)[i], parsed[k].id)

\* the value a non-indented line of the text carries after key:
\* <<>> when the line does not start with key or carries only blanks
CarriedValue(line, key) ==
    IF StartsWith(line, 1, key) /\ SkipWs(line, Len(key) + 1) <= Len(line)
    THEN <<Trim(SubSeq(line, Len(key) + 1, Len(line)))>>
    ELSE <<>>
\* what the claim says of one key: the value of the first non-indented line
\* starting with key when it carries one, undefined when no such line
\* carries a value
MetadataAsSpecified(text, key, value) ==
    LET lines == SplitLines(text)
        hits == {i \in 1..Len(lines) : StartsWith(lines[i], 1, key)}
    IN  /\ (hits # {} /\ CarriedValue(lines[Min(hits)], key) # <<>>)
              => value = CarriedValue(lines[Min(hits)], key)
        /\ (\A i \in hits : CarriedValue(lines[i], key) = <<>>) => value = <<>>
Extracted == pc \in {"extracted", "parsed", "validated", "done"}

\* C15: the extracted id and desc are the values carried by the first
\* non-indented `id:` and `desc:` lines, and undefined when no such line
\* carries a value.
C15_MetadataExtraction ==
    Extracted =>
        /\ MetadataAsSpecified(yaml, K_id, metadata.id)
        /\ MetadataAsSpecified(yaml, K_desc, metadata.desc)

\* the optional attributes in the order the serializer is said to write them
FixedOrder == <<"shortDesc", "source", "format", "path", "sql", "cache", "show",
                "schema", "options", "dependsOn">>
\* the key text of an attribute line
KeyOf(f) == [i \in 1..(Len(f) + 1) |-> IF i <= Len(f) THEN f[i] ELSE ":"]
AttrChars == [shortDesc |-> <<"s","h","o","r","t","D","e","s","c">>, source |-> <<"s","o","u","r","c","e">>, format |-> <<"f","o","r","m","a","t">>,
              path |-> <<"p","a","t","h">>, sql |-> <<"s","q","l">>, cache |-> <<"c","a","c","h","e">>, show |-> <<"s","h","o","w">>,
              schema |-> <<"s","c","h","e","m","a">>, options |-> <<"o","p","t","i","o","n","s">>, dependsOn |-> <<"d","e","p","e","n","d","s","O","n">>]
\* the attribute is on the step and carries something to write
Present(step, f) ==
    /\ f \in DOMAIN step
    /\ f \in {"cache", "show"} \/ Len(step[f]) > 0
RECURSIVE PresentKeys(_, _)
PresentKeys(step, k) ==
    IF k > Len(FixedOrder) THEN <<>>
    ELSE (IF Present(step, FixedOrder[k]) THEN <<KeyOf(AttrChars[FixedOrder[k]])>> ELSE <<>>)
         \o PresentKeys(step, k + 1)
RECURSIVE ExpectedKeys(_)
ExpectedKeys(list) ==
    IF Len(list) = 0 THEN <<>>
    ELSE <<<<"i","d",":">>, <<"k","i","n","d",":">>>> \o PresentKeys(list[1], 1) \o ExpectedKeys(Tail(list))
\* an entry line `  - key: ...` or an attribute line `    key: ...`
IsAttributeLine(line) ==
    /\ Len(line) > 4
    /\ SubSeq(line, 1, 4) \in {<<" ", " ", "-", " ">>, <<" ", " ", " ", " ">>}
    /\ line[5] # " "
\* the text of such a line from column 5 up to its first colon
LineKey(line) == SubSeq(line, 5, Min({i \in 5..Len(line) : line[i] = ":"} \cup {Len(line)}))
RECURSIVE WrittenKeys(_)
WrittenKeys(lines) ==
    IF Len(lines) = 0 THEN <<>>
    ELSE (IF IsAttributeLine(lines[1]) THEN <<LineKey(lines[1])>> ELSE <<>>)
         \o WrittenKeys(Tail(lines))
Serialized == origin = "stepsToYaml" /\ pc # "edit"

\* C16: the keys of the entry and attribute lines of the serialized text
\* are, step after step, id, kind and then the present optional attributes in
\* the order shortDesc, source, format, path, sql, cache, show, schema,
\* options, dependsOn; an absent attribute has no line.
C16_AttributeOrder ==
    Serialized => WrittenKeys(SplitLines(yaml)) = ExpectedKeys(steps)

\* a step with a schema and a cache flag was serialized
C16_Witness ==
    /\ Serialized
    /\ Len(steps) = 1
    /\ Has(steps[1], "schema")
    /\ Has(steps[1], "cache")
    /\ Len(WrittenKeys(SplitLines(yaml))) = 4

\* the entry line of a step
IsEntryLine(line) == Len(line) > 4 /\ SubSeq(line, 1, 4) = <<" ", " ", "-", " ">>
RECURSIVE EntryLines(_)
EntryLines(lines) ==
    IF Len(lines) = 0 THEN <<>>
    ELSE (IF IsEntryLine(lines[1]) THEN <<lines[1]>> ELSE <<>>) \o EntryLines(Tail(lines))
\* the layout of the serialized text, for the text idText of the id line and
\* the text of the desc line (<<>> when there is to be none)
Layout(idText, descText) ==
    LET lines == SplitLines(yaml)
        h == IF descText = <<>> THEN 1 ELSE 2
    IN  /\ Len(lines) >= h + 2
        /\ lines[1] = <<"i", "d", ":", " ">> \o idText
        /\ descText # <<>> => lines[2] = <<"d", "e", "s", "c", ":", " ">> \o descText[1]
        /\ lines[h + 1] = <<>>
        /\ lines[h + 2] = <<"s", "t", "e", "p", "s", ":">>
        /\ EntryLines(lines) = [k \in 1..Len(steps) |-> <<" ", " ", "-", " ", "i", "d", ":", " ">> \o steps[k].id]
        /\ \A i \in (h + 3)..Len(lines) :
              /\ IsEntryLine(lines[i]) => (i = h + 3 \/ lines[i - 1] = <<>>)
              /\ lines[i] = <<>> => (i < Len(lines) /\ IsEntryLine(lines[i + 1]))
        /\ yaml[1] \notin Ws
        /\ yaml[Len(yaml)] \notin Ws
        /\ Len(steps) = 0 => Len(lines) = h + 2

\* C17 as stated: the id line holds the pipelineId whenever one is passed and
\* `my-pipeline` when it is omitted, a desc line exists exactly when a desc
\* is passed; then a blank line, `steps:`, one entry per step in input order
\* with single blank lines between them, no blank at either end, and
\* `steps:` as last line for the empty list.
C17_DocumentLayout ==
    Serialized =>
        Layout(IF pipelineId = <<>> THEN <<"m","y","-","p","i","p","e","l","i","n","e">> ELSE pipelineId[1], pipelineDesc)

\* C17 amended: as above, with `my-pipeline` also for an empty pipelineId
\* and no desc line also for an empty desc.
C17_DocumentLayoutNonEmpty ==
    Serialized =>
        Layout(IF pipelineId = <<>> \/ pipelineId = << <<>> >> THEN <<"m","y","-","p","i","p","e","l","i","n","e">> ELSE pipelineId[1],
               IF pipelineDesc = << <<>> >> THEN <<>> ELSE pipelineDesc)

\* two steps were serialized under an empty pipelineId and a desc
C17_Witness ==
    /\ Serialized
    /\ pipelineId = << <<>> >>
    /\ pipelineDesc # <<>>
    /\ Len(pipelineDesc[1]) > 0
    /\ Len(steps) = 2
    /\ Len(EntryLines(SplitLines(yaml))) = 2

\* C18: a serialized step that carries a position is parsed back with the
\* same position.
C18_PositionRoundTrip ==
    (origin = "stepsToYaml" /\ Parsed) =>
        \A i \in 1..Len(steps) :
            Has(steps[i], "position") =>
                /\ i <= Len(parsed)
                /\ Has(parsed[i], "position")
                /\ parsed[i].position = steps[i].position

\* C19: a single serialized step with non-empty options or dependsOn is
\* parsed back with the same option entries in the same order and the same
\* dependsOn entries in the same order.
C19_OptionsDependsOnRoundTrip ==
    (origin = "stepsToYaml" /\ Parsed /\ Len(steps) = 1) =>
        /\ Present(steps[1], "options") =>
              /\ Len(parsed) = 1
              /\ Has(parsed[1], "options")
              /\ parsed[1].options = steps[1].options
        /\ Present(steps[1], "dependsOn") =>
              /\ Len(parsed) = 1
              /\ Has(parsed[1], "dependsOn")
              /\ parsed[1].dependsOn = steps[1].dependsOn

\* the value of the first attribute line with the key among lines a..b:
\* <<>> when no such line carries a value
AttributeOf(lines, a, b, key) ==
    LET hits == {j \in a..b :
                   /\ IsAttributeLine(lines[j])
                   /\ LineKey(lines[j]) = key
                   /\ Trim(SubSeq(lines[j], 5 + Len(key), Len(lines[j]))) # <<>>}
    IN  IF hits = {} THEN <<>>
        ELSE <<Trim(SubSeq(lines[Min(hits)], 5 + Len(key), Len(lines[Min(hits)])))>>
RECURSIVE CompleteEntries(_, _, _)
\* the <<id, kind>> of the entries among lines i..e-1 that have both, in
\* document order; an entry runs from its `  - ` line to the line before the
\* next one
CompleteEntries(lines, i, e) ==
    IF i >= e THEN <<>>
    ELSE IF ~IsEntryLine(lines[i]) THEN CompleteEntries(lines, i + 1, e)
    ELSE LET nexts == {j \in (i + 1)..(e - 1) : IsEntryLine(lines[j])}
             last == IF nexts = {} THEN e - 1 ELSE Min(nexts) - 1
             id == AttributeOf(lines, i, last, <<"i","d",":">>)
             kind == AttributeOf(lines, i, last, <<"k","i","n","d",":">>)
         IN  (IF id # <<>> /\ kind # <<>> THEN << <<id[1], kind[1]>> >> ELSE <<>>)
             \o CompleteEntries(lines, last + 1, e)

IsIdEntryLine(line) ==
    LET q == SkipWs(line, 1)
    IN  /\ q <= Len(line)
        /\ line[q] = "-"
        /\ SkipWs(line, q + 1) > q + 1
        /\ StartsWith(line, SkipWs(line, q + 1), <<"i","d",":">>)
\* the first non-blank token that follows an occurrence of key in the text:
\* <<>> when there is none
FirstToken(text, key) ==
    LET hits == {q \in 1..Len(text) :
                   StartsWith(text, q, key) /\ SkipWs(text, q + Len(key)) <= Len(text)}
    IN  IF hits = {} THEN <<>>
        ELSE LET a == SkipWs(text, Min(hits) + Len(key))
             IN  <<SubSeq(text, a, SkipNonWs(text, a) - 1)>>
\* the index of the first line after line h that starts with a letter, or
\* the number of lines plus one
SectionEndAtLetter(text, h) ==
    LET lines == SplitLines(text)
        hits == {i \in (h + 1)..Len(lines) : Len(lines[i]) > 0 /\ lines[i][1] \in Letter}
    IN  IF hits = {} THEN Len(lines) + 1 ELSE Min(hits)
RECURSIVE ChunkSteps(_, _, _)
\* the <<id, kind>> of the chunks among lines i..e-1 in which both an id and
\* a kind token occur; a chunk runs from line i to the line before the next
\* item that begins with id
ChunkSteps(lines, i, e) ==
    IF i >= e THEN <<>>
    ELSE LET nexts == {j \in (i + 1)..(e - 1) : IsIdEntryLine(lines[j])}
             last == IF nexts = {} THEN e - 1 ELSE Min(nexts) - 1
             chunk == Join(SubSeq(lines, i, last), <<"\n">>)
             id == FirstToken(chunk, <<"i","d",":">>)
             kind == FirstToken(chunk, <<"k","i","n","d",":">>)
         IN  (IF id # <<>> /\ kind # <<>> THEN << <<id[1], kind[1]>> >> ELSE <<>>)
             \o ChunkSteps(lines, last + 1, e)
\* `steps:` occurs once in the text
OneStepsText(text) ==
    Cardinality({p \in 1..(Len(text) - 5) :
                   SubSeq(text, p, p + 5) = <<"s","t","e","p","s",":">>}) = 1

OneEntry(text) == Len(EntryLines(SplitLines(text))) = 1
\* what the claim says of a boolean attribute, given the value v of the
\* step's own attribute line (<<>> when there is no such line)
BooleanAsSpecified(step, f, v) ==
    IF v = << <<"t","r","u","e">> >> THEN Has(step, f) /\ step[f] = TRUE
    ELSE IF v = << <<"f","a","l","s","e">> >> THEN Has(step, f) /\ step[f] = FALSE
    ELSE ~Has(step, f)

\* C21: the cache (show) of a parsed step is true or false exactly when the
\* step's own `cache:` (`show:`) line carries the token true or false, and
\* is unset for every other token and without such a line.
C21_BooleanParsing ==
    (Parsed /\ OneEntry(yaml) /\ Len(parsed) = 1) =>
        /\ BooleanAsSpecified(parsed[1], "cache",
              AttributeOf(SplitLines(yaml), 1, Len(SplitLines(yaml)), <<"c","a","c","h","e",":">>))
        /\ BooleanAsSpecified(parsed[1], "show",
              AttributeOf(SplitLines(yaml), 1, Len(SplitLines(yaml)), <<"s","h","o","w",":">>))

\* the step's own attribute line `    key value` is a line of the text
HasOwnLine(text, key, value) ==
    \E i \in 1..Len(SplitLines(text)) :
        SplitLines(text)[i] = <<" ", " ", " ", " ">> \o key \o <<" ">> \o value
\* some attribute line of the text has the key
HasKeyLine(text, key) ==
    \E i \in 1..Len(SplitLines(text)) :
        IsAttributeLine(SplitLines(text)[i]) /\ LineKey(SplitLines(text)[i]) = key
\* what the claim says of a boolean attribute f of the one serialized step
FalseKeptDistinct(f, key) ==
    /\ (Has(steps[1], f) /\ steps[1][f] = FALSE) =>
          /\ HasOwnLine(yaml, key, <<"f","a","l","s","e">>)
          /\ Parsed => (Len(parsed) = 1 /\ Has(parsed[1], f) /\ parsed[1][f] = FALSE)
    /\ ~Has(steps[1], f) =>
          /\ ~HasKeyLine(yaml, key)
          /\ Parsed => (Len(parsed) = 1 /\ ~Has(parsed[1], f))

\* C22: a serialized step with cache (show) false has the line
\* `cache: false` (`show: false`) and is parsed back with the attribute
\* false; a step without the attribute has no such line and is parsed back
\* without it.
C22_FalseVersusAbsent ==
    (Serialized /\ Len(steps) = 1) =>
        /\ FalseKeptDistinct("cache", <<"c","a","c","h","e",":">>)
        /\ FalseKeptDistinct("show", <<"s","h","o","w",":">>)

\* a value with no colon, no newline and something other than blanks
CleanValue(v) ==
    /\ \A i \in 1..Len(v) : v[i] \notin {":", "\n"}
    /\ \E i \in 1..Len(v) : v[i] \notin Ws
\* the step list meets the conditions of the claim
WellFormedList(list) ==
    /\ Len(list) > 0
    /\ \A i, j \in 1..Len(list) : i # j => list[i].id # list[j].id
    /\ \A i \in 1..Len(list) :
          /\ list[i].kind \in ClosedKinds
          /\ list[i].kind \in {<<"i","n","p","u","t">>, <<"o","u","t","p","u","t">>} => Present(list[i], "format")
          /\ Has(list[i], "source") => list[i].source \in StepIds(list)
          /\ \A f \in DOMAIN list[i] \cap {"id", "kind", "shortDesc", "desc", "source",
                                             "format", "path", "sql", "schema"} :
                CleanValue(list[i][f])
          /\ Has(list[i], "options") =>
                \A k \in 1..Len(list[i].options) :
                    CleanValue(list[i].options[k][1]) /\ CleanValue(list[i].options[k][2])
          /\ Has(list[i], "dependsOn") =>
                \A k \in 1..Len(list[i].dependsOn) : CleanValue(list[i].dependsOn[k])

\* C23: the serialization of a well-formed step list under a non-empty
\* pipeline id validates without errors.
C23_SerializedListsValidate ==
    (/\ origin = "stepsToYaml"
     /\ Validated
     /\ WellFormedList(steps)
     /\ pipelineId # <<>>
     /\ Len(pipelineId[1]) > 0)
    => (validation.valid /\ validation.errors = <<>>)

\* C24: a parsed step whose entry has no own line for format, path, source,
\* schema, cache or show has that attribute unset, whatever its options and
\* its sql hold.
C24_NoBleed ==
    (Parsed /\ OneEntry(yaml) /\ Len(parsed) = 1) =>
        \A f \in {"format", "path", "source", "schema", "cache", "show"} :
            ~HasKeyLine(yaml, KeyOf(AttrChars[f])) => ~Has(parsed[1], f)

RECURSIVE ExpectedStepErrors(_)
\* the errors of the parsed steps from index i on, step after step, each
\* step's in the order duplicate, kind, format, source
ExpectedStepErrors(i) ==
    IF i > Len(parsed) THEN <<>>
    ELSE (IF \E j \in 1..(i - 1) : parsed[j].id = parsed[i].id
          THEN <<MsgDuplicate(parsed[i].id)>> ELSE <<>>)
         \o (IF BadKind(i) THEN <<MsgInvalidKind(parsed[i].kind, parsed[i].id)>> ELSE <<>>)
         \o (IF NeedsFormat(i) THEN <<MsgNoFormat(parsed[i].id, parsed[i].kind)>> ELSE <<>>)
         \o (IF UnresolvedSource(i)
             THEN <<MsgUnknownSource(parsed[i].id, parsed[i].source)>> ELSE <<>>)
         \o ExpectedStepErrors(i + 1)
\* the document errors that occur in the result, in the order missing id,
\* missing section, no steps
DocumentErrors ==
    SelectSeq(<<MsgMissingId, MsgMissingSteps, MsgNoSteps>>,
              LAMBDA m : Count(validation.errors, m) > 0)

\* C30: the errors are the document errors in the order missing id, missing
\* section, no steps, followed by the errors of each parsed step in document
\* order, each step's in the order duplicate, kind, format, source; a second
\* call on the same text returns the same result.
C30_ErrorOrder ==
    Validated =>
        /\ validation.errors = DocumentErrors \o ExpectedStepErrors(1)
        /\ validateYaml(yaml) = validation

\* steps with a duplicate id and an unresolved source were validated
C30_Witness ==
    /\ Validated
    /\ DuplicateCount > 0
    /\ UnresolvedCount > 0
    /\ Len(validation.errors) >= 2

\* ---------------------------------------------------------------- C29
\* the attributes both parsers read
SharedFields == {"id", "kind", "format", "source", "path"}
Shared(step) == [f \in DOMAIN step \cap SharedFields |-> step[f]]
SharedList(list) == [i \in 1..Len(list) |-> Shared(list[i])]
PageParsed == pageSteps # <<>>

\* C29: for a text stepsToYaml wrote, the editor's own parser and the
\* library parser yield the same sequence of steps as far as id, kind,
\* format, source and path go
C29_EditorParserAgrees ==
    (PageParsed /\ origin = "stepsToYaml") =>
        SharedList(pageSteps[1]) = SharedList(parsed)

\* ---------------------------------------------------------------- C25
Finished == {"success", "failed"}

\* C25: on both servers a run whose status is cancelled is never given the
\* status success or failed by a later step
C25_CancelledStaysCancelled ==
    [][\A r \in RunIds :
        /\ mockRuns[r] = "cancelled" => mockRuns'[r] \notin Finished
        /\ apiRuns[r] = "cancelled" => apiRuns'[r] \notin Finished]_vars

\* ---------------------------------------------------------------- C26
\* C26: once close() has been called no reconnect timer is pending, none
\* is scheduled and connect() is not called again
C26_CloseIsFinal ==
    /\ [](closeCalled => timers = {})
    /\ [][closeCalled => (connects' = connects /\ timersCreated' = timersCreated)]_vars

\* ---------------------------------------------------------------- C27
TimerScheduled == timersCreated' # timersCreated
SocketOpened == \E i \in 1..Len(sockets) : sockets[i] = "connecting" /\ sockets'[i] = "open"

\* what a step may do to the attempt count and the timers
ReconnectStep ==
    /\ TimerScheduled =>
        /\ reconnectAttempts < 5
        /\ reconnectAttempts' = reconnectAttempts + 1
        /\ timersCreated' = timersCreated + 1
    /\ SocketOpened => reconnectAttempts' = 0
    /\ reconnectAttempts' # reconnectAttempts =>
        (TimerScheduled \/ (SocketOpened /\ reconnectAttempts' = 0))
    /\ (reconnectAttempts = 5 /\ ~SocketOpened) =>
        (reconnectAttempts' = 5 /\ ~TimerScheduled)

\* C27: reconnectAttempts stays within 0..5 and at most one reconnect timer
\* is pending; a reconnect is scheduled only below five attempts and counts
\* as one more attempt; the count changes in no other way but the reset to
\* 0, which every successful open performs; so after five schedulings with
\* no open in between no further reconnect is scheduled
C27_ReconnectBound ==
    /\ [](reconnectAttempts \in 0..5 /\ Cardinality(timers) <= 1)
    /\ [][ReconnectStep]_vars

\* five reconnects were scheduled in a row, the fifth has run, its
\* connection is over and nothing is pending: the sixth reconnect was refused
C27_Witness ==
    /\ reconnectAttempts = 5
    /\ connects >= 6
    /\ timers = {}
    /\ \A i \in 1..Len(sockets) : sockets[i] = "closed"
    /\ ~closeCalled

\* ---------------------------------------------------------------- C28
RunningJobs(id) == {j \in 1..Len(jobs) : jobs[j].schedule = id /\ jobs[j].running}
Registered(id) == scheduledJobs[id] # 0 /\ scheduledJobs[id] \in RunningJobs(id)

\* C28: when no request is in flight, scheduledJobs holds a running job
\* for a schedule exactly when its row exists and is enabled, a schedule
\* has at most one running job, and a deleted or disabled schedule has none
C28_RegistryConsistent ==
    requests = {} =>
        \A id \in ScheduleIds :
            /\ Registered(id) <=> rows[id] = "enabled"
            /\ Cardinality(RunningJobs(id)) <= 1
            /\ rows[id] # "enabled" => RunningJobs(id) = {}

====
